---------------------------- MODULE Spec2Model ----------------------------
(***************************************************************************)
(* Rift Architect: the phase state machine with the orchestrator's advisor *)
(* bookkeeping (state-machine.js, orchestrator), and the cloud-API         *)
(* scheduler (riot-api-client: Bucket, RateLimiter, BottleneckQueue,       *)
(* RiotApiClient).                                                         *)
(*                                                                         *)
(* JavaScript runs one macrotask (an event handler, a timer callback, an   *)
(* I/O completion) to its end and then drains the microtask queue before   *)
(* the next macrotask starts.  The continuation of an `await` is a         *)
(* microtask.  The model keeps that queue explicitly: a handler is one     *)
(* action, enabled only when the queue is empty, and every continuation is *)
(* one step of RunMicrotask.                                               *)
(***************************************************************************)
EXTENDS Integers, Sequences, FiniteSets, TLC

VARIABLES
  \* ---- GamePhaseStateMachine / Orchestrator ----
  currentPhase,   \* GamePhaseStateMachine.#currentPhase
  returned,       \* what the last transition() call returned ("none": no call yet)
  emitted,        \* the last two (from, to) callbacks, oldest first
  emitCount,      \* number of callbacks so far, saturating at 2
  activeAgents,   \* Orchestrator.#activeAgents: Map keys in insertion order
  agentActive,    \* BaseAgent.#active of the instance held under each key
  orphans,        \* instances dropped from the map while #active was true
  microtasks,     \* pending await continuations, FIFO
  lcuConnected,   \* LCUConnector holds credentials (between connected/disconnected)
  pendingReads,   \* getCurrentPhase() requests of 'connected' handlers in flight
  paused,         \* pauseAgents() was called and resumeAgents() not yet since
  published,      \* how the agent:activated / agent:deactivated publications
                  \* on the event bus have alternated so far
  gameflow,       \* the client's gameflow phase and the REST answers under way
  \* ---- RiotApiClient / BottleneckQueue / RateLimiter ----
  now,            \* Date.now(), in ticks
  sched,          \* the scheduler's fields and the tasks' positions (SchedInit)
  hist,           \* what has been observed of the scheduler (HistInit)
  \* ---- MacroStrategist ----
  macro,          \* the live advisor's fields and tool loops (MacroInit)
  advice,         \* what has been observed of the advisor (AdviceInit)
  \* ---- LiveClientAPI ----
  client,         \* the live client's event poll (ClientInit)
  feed,           \* the game's events and the emissions observed (FeedInit)
  \* ---- LCUConnector ----
  lcu,            \* the connector's fields, its sockets and timers (LcuInit)
  \* ---- DraftingOracle ----
  oracle,         \* one instance's fields and its requests in flight (OracleInit)
  \* ---- ClaudeClient ----
  loop,           \* one runToolLoop call (LoopInit)
  \* ---- TriggerDetector ----
  detector,       \* the detector's rolling state and its last call (DetectorInit)
  gameClock       \* the game time of the match, in ticks

phaseVars == <<currentPhase, returned, emitted, emitCount, activeAgents, agentActive,
               orphans, microtasks, lcuConnected, pendingReads, paused, published,
               gameflow>>

schedVars == <<now, sched, hist>>

macroVars == <<macro, advice>>

clientVars == <<client, feed>>

advisorVars == <<macroVars, clientVars>>

otherVars == <<lcu, oracle, loop, detector, gameClock>>

vars == <<phaseVars, schedVars, advisorVars, otherVars>>

\* ------------------------------------------------------------------------
\* Bounds
\* ------------------------------------------------------------------------
MaxPendingReads == 1

\* ------------------------------------------------------------------------
\* state-machine.js: constants
\* ------------------------------------------------------------------------
IDLE == "IDLE"
LOBBY == "LOBBY"
CHAMP_SELECT == "CHAMP_SELECT"
LOADING == "LOADING"
IN_GAME == "IN_GAME"
POST_GAME == "POST_GAME"

GamePhase == {IDLE, LOBBY, CHAMP_SELECT, LOADING, IN_GAME, POST_GAME}

\* The raw gameflow strings the client sends; "Reconnect" stands for every
\* string that is not a key of LCU_PHASE_MAP.
LcuPhases == {"None", "Lobby", "Matchmaking", "ReadyCheck", "ChampSelect",
              "GameStart", "InProgress", "WaitingForStats", "PreEndOfGame",
              "EndOfGame", "Reconnect"}

NoAgent == "null"
AgentIds == {"drafting-oracle", "macro-strategist", "tilt-guard"}

\* LCU_PHASE_MAP[lcuPhase], with "undefined" for a missing key.
LCU_PHASE_MAP(lcuPhase) ==
  CASE lcuPhase = "None" -> IDLE
    [] lcuPhase = "Lobby" -> LOBBY
    [] lcuPhase = "Matchmaking" -> LOBBY
    [] lcuPhase = "ReadyCheck" -> LOBBY
    [] lcuPhase = "ChampSelect" -> CHAMP_SELECT
    [] lcuPhase = "GameStart" -> LOADING
    [] lcuPhase = "InProgress" -> IN_GAME
    [] lcuPhase = "WaitingForStats" -> POST_GAME
    [] lcuPhase = "PreEndOfGame" -> POST_GAME
    [] lcuPhase = "EndOfGame" -> POST_GAME
    [] OTHER -> "undefined"

VALID_TRANSITIONS(phase) ==
  CASE phase = IDLE -> {LOBBY}
    [] phase = LOBBY -> {CHAMP_SELECT, IDLE}
    [] phase = CHAMP_SELECT -> {LOADING, LOBBY}
    [] phase = LOADING -> {IN_GAME}
    [] phase = IN_GAME -> {POST_GAME}
    [] phase = POST_GAME -> {IDLE, LOBBY}

PHASE_AGENT_MAP(phase) ==
  CASE phase = CHAMP_SELECT -> "drafting-oracle"
    [] phase = IN_GAME -> "macro-strategist"
    [] phase = POST_GAME -> "tilt-guard"
    [] OTHER -> NoAgent

\* ------------------------------------------------------------------------
\* Orchestrator: the advisor bookkeeping as a record
\*   aa  : #activeAgents (keys, insertion order)
\*   act : #active of the instance under each key
\*   orp : orphans
\*   mq  : microtask queue
\*   pub : the event bus's agent:* publications: open[a] says that the last
\*         one for advisor a was agent:activated; unpaired says that two
\*         publications of the same kind have followed each other for some
\*         advisor (or that the first one was agent:deactivated)
\* ------------------------------------------------------------------------
OrchState == [aa |-> activeAgents, act |-> agentActive, orp |-> orphans,
              mq |-> microtasks, pub |-> published]

\* eventBus.publish("agent:activated" / "agent:deactivated", {agent})
Publish(pub, event, agentId) ==
  LET activated == event = "agent:activated"
  IN  [open |-> [pub.open EXCEPT ![agentId] = activated],
       unpaired |-> pub.unpaired \/ pub.open[agentId] = activated]

InSeq(s, x) == \E i \in 1..Len(s) : s[i] = x

Without(s, x) == SelectSeq(s, LAMBDA y : y # x)

RemoveAt(q, i) == [j \in 1..(Len(q) - 1) |-> IF j < i THEN q[j] ELSE q[j + 1]]

\* BaseAgent.stop() up to its first await.  An active instance clears
\* #active, runs onDeactivate() (every advisor's onDeactivate has no await
\* of its own, so its body is complete when it returns) and suspends on
\* `await this.onDeactivate()`; an inactive one returns at once.
AgentStop(o, agentId) ==
  IF o.act[agentId]
    THEN [o EXCEPT !.act[agentId] = FALSE,
                   !.mq = Append(@, [k |-> "stopped", id |-> agentId])]
    ELSE [o EXCEPT !.mq = Append(@, [k |-> "remove", id |-> agentId])]

\* Orchestrator.#deactivateAgent up to `await agent.stop()`.
DeactivateAgent(o, agentId) ==
  IF ~InSeq(o.aa, agentId) THEN o ELSE AgentStop(o, agentId)

\* Orchestrator.#activateAgent up to `await agent.start()`; `enabled` is the
\* persisted per-advisor flag read through queries.getSetting.  What follows
\* the await changes nothing here: start() absorbs its own errors.
ActivateAgent(o, agentId, enabled) ==
  IF InSeq(o.aa, agentId) THEN o
  ELSE IF ~enabled THEN o
  ELSE [o EXCEPT !.aa = Append(@, agentId), !.act[agentId] = TRUE,
                 !.pub = Publish(@, "agent:activated", agentId)]

RECURSIVE DeactivateEach(_, _)
DeactivateEach(o, ids) ==
  IF ids = <<>> THEN o
  ELSE DeactivateEach(DeactivateAgent(o, Head(ids)), Tail(ids))

\* Orchestrator.#deactivateAllAgents up to `await Promise.all(...)`.
DeactivateAllAgents(o) == DeactivateEach(o, o.aa)

\* Orchestrator.#onPhaseTransition: neither call is awaited.
OnPhaseTransition(o, from, to, enabled) ==
  LET prevAgent == PHASE_AGENT_MAP(from)
      newAgent == PHASE_AGENT_MAP(to)
      o1 == IF prevAgent # NoAgent THEN DeactivateAgent(o, prevAgent) ELSE o
  IN  IF newAgent # NoAgent THEN ActivateAgent(o1, newAgent, enabled) ELSE o1

\* The continuation of an await, run as a microtask.
\*   "stopped": stop() resumes after onDeactivate and returns, which resumes
\*              #deactivateAgent one tick later
\*   "remove" : #deactivateAgent after `await agent.stop()`: delete, publish
MicrotaskStep(o) ==
  LET t == Head(o.mq)
      rest == Tail(o.mq)
  IN  IF t.k = "stopped"
        THEN [o EXCEPT !.mq = Append(rest, [k |-> "remove", id |-> t.id])]
        ELSE [o EXCEPT !.mq = rest,
                       !.aa = Without(@, t.id),
                       !.orp = IF InSeq(o.aa, t.id) /\ o.act[t.id]
                                 THEN @ \cup {t.id} ELSE @,
                       !.act[t.id] = FALSE,
                       !.pub = Publish(@, "agent:deactivated", t.id)]

SetOrch(o) ==
  /\ activeAgents' = o.aa
  /\ agentActive' = o.act
  /\ orphans' = o.orp
  /\ microtasks' = o.mq
  /\ published' = o.pub

\* ------------------------------------------------------------------------
\* GamePhaseStateMachine
\* ------------------------------------------------------------------------
\* The callback record kept for the chain property.
Emit(from, to) ==
  /\ emitted' = IF Len(emitted) < 2 THEN Append(emitted, <<from, to>>)
                ELSE <<emitted[2], <<from, to>>>>
  /\ emitCount' = IF emitCount < 2 THEN emitCount + 1 ELSE 2

NoEmit == UNCHANGED <<emitted, emitCount>>

\* (mutant) transition() without its same-phase check.
TransitionUnchecked(o, newPhase, enabled) ==
  /\ currentPhase' = newPhase
  /\ returned' = "true"
  /\ Emit(currentPhase, newPhase)
  /\ SetOrch(OnPhaseTransition(o, currentPhase, newPhase, enabled))

\* (mutant) transition() refusing the edges VALID_TRANSITIONS does not list.
TransitionValidated(o, newPhase, enabled) ==
  IF newPhase = currentPhase \/ newPhase \notin VALID_TRANSITIONS(currentPhase)
    THEN /\ UNCHANGED currentPhase
         /\ returned' = "false"
         /\ NoEmit
         /\ SetOrch(o)
    ELSE /\ currentPhase' = newPhase
         /\ returned' = "true"
         /\ Emit(currentPhase, newPhase)
         /\ SetOrch(OnPhaseTransition(o, currentPhase, newPhase, enabled))

\* GamePhaseStateMachine.transition(newPhase) with the orchestrator's
\* callback; `o` is the bookkeeping the call starts from.
Transition(o, newPhase, enabled) ==
  IF newPhase = currentPhase
    THEN /\ UNCHANGED currentPhase
         /\ returned' = "false"
         /\ NoEmit
         /\ SetOrch(o)
    ELSE /\ currentPhase' = newPhase
         /\ returned' = "true"
         /\ Emit(currentPhase, newPhase)
         /\ SetOrch(OnPhaseTransition(o, currentPhase, newPhase, enabled))

\* (mutant) transitionFromLCU() without the fallback for a missing key.
TransitionFromLCUNoDefault(o, lcuPhase, enabled) ==
  Transition(o, LCU_PHASE_MAP(lcuPhase), enabled)

\* GamePhaseStateMachine.transitionFromLCU(lcuPhase)
TransitionFromLCU(o, lcuPhase, enabled) ==
  LET mapped == LCU_PHASE_MAP(lcuPhase)
  IN  IF mapped = "undefined" THEN Transition(o, IDLE, enabled)
      ELSE Transition(o, mapped, enabled)

\* (mutant) reset() forces IDLE and never calls back.
ResetSilent(o) ==
  /\ currentPhase' = IDLE
  /\ UNCHANGED returned
  /\ NoEmit
  /\ SetOrch(o)

\* (mutant) reset() calling back whatever the prior phase.
ResetAlwaysEmits(o) ==
  /\ currentPhase' = IDLE
  /\ UNCHANGED returned
  /\ Emit(currentPhase, IDLE)
  /\ SetOrch(OnPhaseTransition(o, currentPhase, IDLE, TRUE))

\* GamePhaseStateMachine.reset() with the orchestrator's callback.
Reset(o) ==
  /\ currentPhase' = IDLE
  /\ UNCHANGED returned
  /\ IF currentPhase # IDLE
       THEN /\ Emit(currentPhase, IDLE)
            /\ SetOrch(OnPhaseTransition(o, currentPhase, IDLE, TRUE))
       ELSE /\ NoEmit
            /\ SetOrch(o)

\* ------------------------------------------------------------------------
\* Handlers (macrotasks)
\* ------------------------------------------------------------------------
Quiet == microtasks = <<>>

\* The League client's side of the two channels.
\*   phase  : the client's gameflow phase (what /lol-gameflow/v1/gameflow-phase
\*            answers and what the last gameflow event carried)
\*   served : the answers to getCurrentPhase() that the client has written and
\*            the 'connected' handler has not received yet
\*   heard  : a phase of the client has reached the state machine since the
\*            last 'connected'
GameflowInit == [phase |-> "None", served |-> <<>>, heard |-> FALSE]

\* lcu 'connected': the handler runs to `await this.#lcu.getCurrentPhase()`.
LcuConnected ==
  /\ Quiet
  /\ ~lcuConnected
  /\ pendingReads < MaxPendingReads
  /\ lcuConnected' = TRUE
  /\ pendingReads' = pendingReads + 1
  /\ UNCHANGED <<currentPhase, returned, emitted, emitCount, activeAgents, agentActive,
                 orphans, microtasks, schedVars, advisorVars, otherVars, paused,
                 published, gameflow>>

\* The REST read answers: the 'connected' handler resumes.
PhaseReadDone ==
  /\ Quiet
  /\ pendingReads > 0
  /\ pendingReads' = pendingReads - 1
  /\ \E phase \in LcuPhases, enabled \in BOOLEAN :
       TransitionFromLCU(OrchState, phase, enabled)
  /\ UNCHANGED <<lcuConnected, schedVars, advisorVars, otherVars, paused, gameflow>>

\* The REST read fails or times out: the handler's catch only logs.
PhaseReadFail ==
  /\ Quiet
  /\ pendingReads > 0
  /\ pendingReads' = pendingReads - 1
  /\ UNCHANGED <<currentPhase, returned, emitted, emitCount, activeAgents, agentActive,
                 orphans, microtasks, lcuConnected, schedVars, advisorVars, otherVars,
                 paused, published, gameflow>>

\* lcu 'disconnected'
LcuDisconnected ==
  /\ Quiet
  /\ lcuConnected
  /\ lcuConnected' = FALSE
  /\ Reset(DeactivateAllAgents(OrchState))
  /\ gameflow' = [gameflow EXCEPT !.heard = FALSE]
  /\ UNCHANGED <<pendingReads, schedVars, advisorVars, otherVars, paused>>

\* lcu 'phase-changed' (event channel)
PhaseChanged ==
  /\ Quiet
  /\ lcuConnected
  /\ \E phase \in LcuPhases, enabled \in BOOLEAN :
       TransitionFromLCU(OrchState, phase, enabled)
  /\ UNCHANGED <<lcuConnected, pendingReads, schedVars, advisorVars, otherVars, paused,
                 gameflow>>

\* Orchestrator.pauseAgents() up to its await
PauseAgents ==
  /\ Quiet
  /\ SetOrch(DeactivateAllAgents(OrchState))
  /\ paused' = TRUE
  /\ UNCHANGED <<currentPhase, returned, emitted, emitCount, lcuConnected, pendingReads,
                 schedVars, advisorVars, otherVars, gameflow>>

\* Orchestrator.resumeAgents()
ResumeAgents ==
  /\ Quiet
  /\ paused' = FALSE
  /\ \E enabled \in BOOLEAN :
       LET agentId == PHASE_AGENT_MAP(currentPhase)
       IN  SetOrch(IF agentId # NoAgent
                     THEN ActivateAgent(OrchState, agentId, enabled)
                     ELSE OrchState)
  /\ UNCHANGED <<currentPhase, returned, emitted, emitCount, lcuConnected, pendingReads,
                 schedVars, advisorVars, otherVars, gameflow>>

\* index.js 'keys:save': the propagation timer's callback calls pauseAgents()
\* and, in the same macrotask, resumeAgents().  pauseAgents() runs to its
\* await, so resumeAgents() sees the map as the stop() calls left it.
KeySaveResume(o, phase, enabled) ==
  LET o1 == DeactivateAllAgents(o)
      agentId == PHASE_AGENT_MAP(phase)
  IN  IF agentId # NoAgent THEN ActivateAgent(o1, agentId, enabled) ELSE o1

KeySaveStep(enabled) ==
  /\ Quiet
  /\ paused' = FALSE
  /\ SetOrch(KeySaveResume(OrchState, currentPhase, enabled))
  /\ UNCHANGED <<currentPhase, returned, emitted, emitCount, lcuConnected, pendingReads,
                 schedVars, advisorVars, otherVars, gameflow>>

KeySavePropagated == \E enabled \in BOOLEAN : KeySaveStep(enabled)

\* ---- the same handlers, with the client's phase followed ----
\* lcu 'connected' while the client is in some phase of its own.
ConnectedInPhase ==
  /\ Quiet
  /\ ~lcuConnected
  /\ pendingReads < MaxPendingReads
  /\ lcuConnected' = TRUE
  /\ pendingReads' = pendingReads + 1
  /\ \E phase \in LcuPhases :
       gameflow' = [gameflow EXCEPT !.phase = phase, !.heard = FALSE]
  /\ UNCHANGED <<currentPhase, returned, emitted, emitCount, activeAgents, agentActive,
                 orphans, microtasks, schedVars, advisorVars, otherVars, paused,
                 published>>

\* The client answers a getCurrentPhase() request with its phase of the moment.
PhaseReadServed ==
  /\ Quiet
  /\ lcuConnected
  /\ Len(gameflow.served) < pendingReads
  /\ gameflow' = [gameflow EXCEPT !.served = Append(@, gameflow.phase)]
  /\ UNCHANGED <<currentPhase, returned, emitted, emitCount, activeAgents, agentActive,
                 orphans, microtasks, lcuConnected, pendingReads, schedVars,
                 advisorVars, otherVars, paused, published>>

\* An answer arrives: the 'connected' handler resumes with it.
PhaseReadArrives ==
  /\ Quiet
  /\ pendingReads > 0
  /\ pendingReads' = pendingReads - 1
  /\ \E i \in 1..Len(gameflow.served), enabled \in BOOLEAN :
       /\ TransitionFromLCU(OrchState, gameflow.served[i], enabled)
       /\ gameflow' = [gameflow EXCEPT !.served = RemoveAt(@, i),
                                       !.heard = @ \/ lcuConnected]
  /\ UNCHANGED <<lcuConnected, schedVars, advisorVars, otherVars, paused>>

\* A request fails or times out, answered or not.
PhaseReadLost ==
  /\ Quiet
  /\ pendingReads > 0
  /\ pendingReads' = pendingReads - 1
  /\ \/ /\ Len(gameflow.served) < pendingReads
        /\ UNCHANGED gameflow
     \/ \E i \in 1..Len(gameflow.served) :
          gameflow' = [gameflow EXCEPT !.served = RemoveAt(@, i)]
  /\ UNCHANGED <<currentPhase, returned, emitted, emitCount, activeAgents, agentActive,
                 orphans, microtasks, lcuConnected, schedVars, advisorVars, otherVars,
                 paused, published>>

\* The client changes its phase and the gameflow event reaches the
\* 'phase-changed' handler.
GameflowEvent ==
  /\ Quiet
  /\ lcuConnected
  /\ \E phase \in LcuPhases, enabled \in BOOLEAN :
       /\ TransitionFromLCU(OrchState, phase, enabled)
       /\ gameflow' = [gameflow EXCEPT !.phase = phase, !.heard = TRUE]
  /\ UNCHANGED <<lcuConnected, pendingReads, schedVars, advisorVars, otherVars, paused>>

RunMicrotask ==
  /\ microtasks # <<>>
  /\ SetOrch(MicrotaskStep(OrchState))
  /\ UNCHANGED <<currentPhase, returned, emitted, emitCount, lcuConnected, pendingReads,
                 schedVars, advisorVars, otherVars, paused, gameflow>>

\* ========================================================================
\* riot-api-client: Bucket, RateLimiter, BottleneckQueue, RiotApiClient
\* ========================================================================
\* Time is counted in ticks.  The durations of the source are kept as named
\* definitions; their values are scaled down so that a bounded run reaches
\* the waits, the soft pause and its end (the source's values are in the
\* comments).  Their order is the source's:
\*   spacing = buffer < one second < pause < window.
TICKS_PER_SECOND == 2      \* `windowSeconds * 1000`, `retryAfter * 1000`
REQUEST_SPACING_MS == 1    \* #REQUEST_SPACING_MS = 50
WAIT_BUFFER_MS == 1        \* the 50 of `sleep(waitMs + 50)`
PAUSE_DURATION_MS == 3     \* #PAUSE_DURATION_MS = 30000
WINDOW_MS == 6             \* #WINDOW_MS = 120000
WINDOW_MAX == 2            \* #WINDOW_MAX = 100
THROTTLE_PCT == 80         \* #THROTTLE_PCT = 0.80, in percent
MAX_RETRIES == 3           \* #MAX_RETRIES = 3

MaxTasks == 3              \* API calls made in a run of SpecSched
MaxLiveTasks == 3          \* API calls made in a run of SpecLive
MaxSoftTasks == 4          \* API calls made in a run of SpecSoft
MaxLatency == 1            \* ticks a request is in flight, at most (SpecLive, SpecSoft)
Horizon == 6               \* ticks a run lasts

MIN_ADVICE_INTERVAL == 3   \* #MIN_ADVICE_INTERVAL = 60000 ms, in ticks of 20 s
MaxActivations == 2        \* advisor instances created in a run of SpecMacro
MaxEvents == 3             \* events of a game in a run of SpecClient
MaxTimers == 2             \* event intervals alive at once
MaxPolls == 2              \* getEventData() requests in flight at once
MaxResets == 3             \* startPolling/stopPolling calls in a run

Tasks == 1..MaxSoftTasks
StartTime == WINDOW_MS + 1 \* Date.now() at construction: far from the epoch
MaxTime == StartTime + Horizon

\* X-App-Rate-Limit values of a response, already split into <<N, S>> pairs;
\* <<>> is a response without the header.
RateHeaders == {<<>>, <<<<1, 2>>>>}
\* Retry-After values of a 429, in seconds (a missing header reads as 1).
RetryAfters == {0, 1}
StatusCodes == {200, 429, 403, 500}

Max(a, b) == IF a >= b THEN a ELSE b

\* ---- Bucket -------------------------------------------------------------
NewBucket(max, windowSeconds) ==
  [max |-> max, windowMs |-> windowSeconds * TICKS_PER_SECOND,
   timestamps |-> <<>>]

\* Bucket.#prune
BucketPrune(b, n) ==
  [b EXCEPT !.timestamps = SelectSeq(@, LAMBDA t : t > n - b.windowMs)]

\* Bucket.canRequest (on a pruned bucket)
BucketCanRequest(b, n) == Len(BucketPrune(b, n).timestamps) < b.max

\* Bucket.consume
BucketConsume(b, n) == [b EXCEPT !.timestamps = Append(@, n)]

\* (mutant) a full bucket reports no wait.
BucketWaitTimeZero(b, n) == 0

\* Bucket.waitTime
BucketWaitTime(b, n) ==
  LET ts == BucketPrune(b, n).timestamps
  IN  IF Len(ts) < b.max THEN 0 ELSE ts[1] + b.windowMs - n

\* ---- RateLimiter --------------------------------------------------------
\* RateLimiter.parseBuckets
ParseBuckets(header) ==
  IF header = <<>> THEN <<NewBucket(20, 1), NewBucket(100, 120)>>
  ELSE [i \in 1..Len(header) |-> NewBucket(header[i][1], header[i][2])]

\* The limits a bucket set stands for: "N:S" of each bucket.
Limits(bs) == [i \in 1..Len(bs) |-> <<bs[i].max, bs[i].windowMs>>]

\* The pruning that canRequest() and waitTime() leave behind in the buckets.
LimiterPrune(bs, n) == [i \in 1..Len(bs) |-> BucketPrune(bs[i], n)]

\* RateLimiter.canRequest
LimiterCanRequest(bs, n) == \A i \in 1..Len(bs) : BucketCanRequest(bs[i], n)

\* RateLimiter.consume
LimiterConsume(bs, n) == [i \in 1..Len(bs) |-> BucketConsume(bs[i], n)]

RECURSIVE MaxWait(_, _, _)
MaxWait(bs, n, i) ==
  IF i > Len(bs) THEN 0
  ELSE Max(BucketWaitTime(bs[i], n), MaxWait(bs, n, i + 1))

\* RateLimiter.waitTime
LimiterWaitTime(bs, n) == MaxWait(bs, n, 1)

\* ---- positions ------------------------------------------------------------
\* A task's #requestWithRetry: where it is suspended.
\*   "limiter" sleep(waitMs + 50)       "spacing" sleep(spacing - elapsed)
\*   "bucket"  sleep(extraWait + 50)    "http"    awaiting the response
\*   "retry"   sleep(err.retryAfterMs)  "none"    not in service
\* `waited` notes that this attempt slept for the limiter.
NoReq == [pc |-> "none", wake |-> 0, attempt |-> 0, waited |-> FALSE]

\* The drain loop: "idle" (not running), "softSleep" (sleep(remaining)) or
\* "task" (await run()).
LoopIdle == [pc |-> "idle", wake |-> 0, task |-> 0]

SchedInit ==
  [queue |-> <<>>, running |-> FALSE, paused |-> FALSE, pauseUntil |-> 0,
   windowTimestamps |-> <<>>, buckets |-> ParseBuckets(<<<<20, 1>>, <<100, 120>>>>),
   lastRequestTime |-> 0, keyExpired |-> FALSE, apiKey |-> TRUE,
   loop |-> LoopIdle, req |-> [t \in Tasks |-> NoReq], nextTask |-> 1]

\* Observations: each task's outcome, the order of dispatch, the HTTP
\* requests sent per task, the events emitted, whether the last token was
\* consumed with every bucket admitting ("admitted", or "waited" when the
\* attempt slept for the limiter first; "full" otherwise), and the last 429
\* of each task.  `dueAt` is, for the task in service, the time of its
\* dispatch plus the Retry-After delays of the 429s it has received.
\* `lastSentAt` is the time the last HTTP request was sent (0: none yet),
\* `dispatchedAt` the time each task was taken from the queue (0: not yet).
\* `hardPaused` is set by pause() and cleared by resume().  `sentLog` holds
\* the times of the HTTP requests sent since the limits now in force were
\* announced.
HistInit ==
  [outcome |-> [t \in Tasks |-> "new"], dispatched |-> <<>>,
   httpSent |-> [t \in Tasks |-> 0], rateLimited |-> [t \in Tasks |-> 0],
   keyExpiredEmits |-> 0, lastConsume |-> "none",
   sentAt |-> [t \in Tasks |-> 0], respAt |-> [t \in Tasks |-> 0],
   retryAfterMs |-> [t \in Tasks |-> 0], dueAt |-> 0,
   lastSentAt |-> 0, dispatchedAt |-> [t \in Tasks |-> 0],
   hardPaused |-> FALSE, sentLog |-> <<>>]

\* The operators below work on one record holding both.
SchedState == sched @@ hist

\* The next state, with the log of requests sent kept (runs of SpecLimits).
SetLogged(s) ==
  /\ sched' = [f \in DOMAIN sched |-> s[f]]
  /\ hist' = [f \in DOMAIN hist |-> s[f]]

\* The next state; the log of requests sent is not observed.
SetSched(s) == SetLogged([s EXCEPT !.sentLog = <<>>])

RECURSIVE DrainTop(_, _), DrainCheck(_, _), Dispatch(_, _), Settle(_, _, _, _)
RECURSIVE RequestWithRetry(_, _, _, _), Spacing(_, _, _), Available(_, _, _)
RECURSIVE Fire(_, _, _)

Sleep(s, t, pc, wake) == [s EXCEPT !.req[t].pc = pc, !.req[t].wake = wake]

\* ---- RiotApiClient.#requestWithRetry ------------------------------------
\* Step 4 and #request up to the HTTP request: consume, stamp, send.  Without
\* a key #request rejects before sending and the task fails.
Fire(s, t, n) ==
  LET s1 == [s EXCEPT !.lastConsume =
                        IF ~LimiterCanRequest(s.buckets, n) THEN "full"
                        ELSE IF s.req[t].waited THEN "waited"
                        ELSE "admitted",
                      !.buckets = LimiterConsume(@, n),
                      !.lastRequestTime = n]
  IN  IF ~s.apiKey THEN Settle(s1, t, "notConfigured", n)
      ELSE [s1 EXCEPT !.req[t].pc = "http", !.req[t].wake = 0,
                      !.httpSent[t] = @ + 1, !.sentAt[t] = n,
                      !.lastSentAt = n, !.sentLog = Append(@, n)]

\* Step 3: the second look at the buckets.
Available(s, t, n) ==
  LET s1 == [s EXCEPT !.buckets = LimiterPrune(@, n)]
  IN  IF ~LimiterCanRequest(s.buckets, n)
        THEN Sleep([s1 EXCEPT !.req[t].waited = TRUE], t, "bucket",
                   n + LimiterWaitTime(s.buckets, n) + WAIT_BUFFER_MS)
        ELSE Fire(s1, t, n)

\* (mutant) step 2 is left out.
SpacingSkipped(s, t, n) == Available(s, t, n)

\* Step 2: the spacing since the last request.
Spacing(s, t, n) ==
  LET elapsed == n - s.lastRequestTime
  IN  IF elapsed < REQUEST_SPACING_MS
        THEN Sleep(s, t, "spacing", n + (REQUEST_SPACING_MS - elapsed))
        ELSE Available(s, t, n)

\* Step 1: the limiter's wait.
RequestWithRetry(s, t, attempt, n) ==
  LET waitMs == LimiterWaitTime(s.buckets, n)
      s1 == [s EXCEPT !.buckets = LimiterPrune(@, n),
                      !.req[t].attempt = attempt,
                      !.req[t].waited = waitMs > 0]
  IN  IF waitMs > 0
        THEN Sleep(s1, t, "limiter", n + waitMs + WAIT_BUFFER_MS)
        ELSE Spacing(s1, t, n)

\* ---- BottleneckQueue ----------------------------------------------------
\* BottleneckQueue.#pruneWindow
PruneWindow(ts, n) == SelectSeq(ts, LAMBDA t : t > n - WINDOW_MS)

\* (mutant) pop() in place of shift(): the newest entry is taken.
QueuePop(q) == [item |-> q[Len(q)], rest |-> SubSeq(q, 1, Len(q) - 1)]

\* `this.#queue.shift()`: the entry taken and the entries left.
QueueShift(q) == [item |-> Head(q), rest |-> Tail(q)]

\* The loop after `await run()`: the task's promise takes the outcome and the
\* loop goes round.  A task the loop is not waiting for only settles.
Settle(s, t, outcome, n) ==
  LET s1 == [s EXCEPT !.outcome[t] = outcome, !.req[t] = NoReq,
                      !.sentAt[t] = 0, !.respAt[t] = 0, !.retryAfterMs[t] = 0,
                      !.dueAt = 0]
  IN  IF s.loop.pc = "task" /\ s.loop.task = t
        THEN DrainTop([s1 EXCEPT !.loop = LoopIdle], n)
        ELSE s1

\* (mutant) run() is started and not awaited: the loop goes round at once.
DispatchNoAwait(s, n) ==
  LET e == QueueShift(s.queue)
      s1 == [s EXCEPT !.queue = e.rest,
                      !.windowTimestamps = Append(@, n),
                      !.dispatched = Append(@, e.item),
                      !.outcome[e.item] = "running",
                      !.dispatchedAt[e.item] = n,
                      !.dueAt = n]
  IN  DrainTop(RequestWithRetry(s1, e.item, 0, n), n)

\* #drain, lines 200-203: shift, stamp the window, start run() and await it.
\* On an empty queue shift() gives undefined and the destructuring throws:
\* the loop ends there, with #running left true.
Dispatch(s, n) ==
  LET e == QueueShift(s.queue)
      s1 == [s EXCEPT !.queue = e.rest,
                      !.windowTimestamps = Append(@, n),
                      !.dispatched = Append(@, e.item),
                      !.outcome[e.item] = "running",
                      !.dispatchedAt[e.item] = n,
                      !.dueAt = n,
                      !.loop = [pc |-> "task", wake |-> 0, task |-> e.item]]
  IN  IF s.queue = <<>> THEN [s EXCEPT !.loop = LoopIdle]
      ELSE RequestWithRetry(s1, e.item, 0, n)

\* (mutant) the 80% check is left out.
DrainCheckNoThrottle(s, n) ==
  IF s.paused /\ s.pauseUntil = 0
    THEN [s EXCEPT !.running = FALSE, !.loop = LoopIdle]
    ELSE Dispatch([s EXCEPT !.windowTimestamps =
                              PruneWindow(s.windowTimestamps, n)], n)

\* #drain, lines 183-198: the hard-pause break and the 80% check.
DrainCheck(s, n) ==
  IF s.paused /\ s.pauseUntil = 0
    THEN [s EXCEPT !.running = FALSE, !.loop = LoopIdle]
    ELSE LET w == PruneWindow(s.windowTimestamps, n)
         IN  IF Len(w) * 100 >= WINDOW_MAX * THROTTLE_PCT
               THEN DrainTop([s EXCEPT !.windowTimestamps = w,
                                       !.paused = TRUE,
                                       !.pauseUntil = n + PAUSE_DURATION_MS], n)
               ELSE Dispatch([s EXCEPT !.windowTimestamps = w], n)

\* #drain, lines 171-181: the loop condition and the soft-pause sleep.
DrainTop(s, n) ==
  IF s.queue = <<>>
    THEN [s EXCEPT !.running = FALSE, !.loop = LoopIdle]
    ELSE IF s.paused /\ s.pauseUntil > 0
      THEN IF s.pauseUntil - n > 0
             THEN [s EXCEPT !.loop = [pc |-> "softSleep",
                                      wake |-> n + (s.pauseUntil - n),
                                      task |-> 0]]
             ELSE DrainCheck([s EXCEPT !.paused = FALSE, !.pauseUntil = 0], n)
      ELSE DrainCheck(s, n)

\* BottleneckQueue.#drain, entry
Drain(s, n) ==
  IF s.running THEN s ELSE DrainTop([s EXCEPT !.running = TRUE], n)

\* (mutant) enqueue rejects whenever the queue is paused, soft pause included.
EnqueueRejectsPaused(s, t, n) ==
  IF s.paused
    THEN [s EXCEPT !.outcome[t] = "expired"]
    ELSE Drain([s EXCEPT !.queue = Append(@, t), !.outcome[t] = "queued"], n)

\* (mutant) enqueue pushes and forgets to start the drain loop.
EnqueueNoDrain(s, t, n) ==
  IF s.paused /\ s.pauseUntil = 0
    THEN [s EXCEPT !.outcome[t] = "expired"]
    ELSE [s EXCEPT !.queue = Append(@, t), !.outcome[t] = "queued"]

\* BottleneckQueue.enqueue
Enqueue(s, t, n) ==
  IF s.paused /\ s.pauseUntil = 0
    THEN [s EXCEPT !.outcome[t] = "expired"]
    ELSE Drain([s EXCEPT !.queue = Append(@, t), !.outcome[t] = "queued"], n)

\* (mutant) pause() sets the flags and leaves the waiting tasks queued.
QueuePauseKeep(s) ==
  [s EXCEPT !.paused = TRUE, !.pauseUntil = 0, !.hardPaused = TRUE]

\* BottleneckQueue.pause: every waiting task is rejected.
QueuePause(s) ==
  [s EXCEPT !.paused = TRUE, !.pauseUntil = 0, !.queue = <<>>,
            !.hardPaused = TRUE,
            !.outcome = [t \in Tasks |->
                           IF InSeq(s.queue, t) THEN "expired" ELSE @[t]]]

\* BottleneckQueue.windowUsage, read at time n
WindowUsage(s, n) == Len(PruneWindow(s.windowTimestamps, n))

\* BottleneckQueue.resume
QueueResume(s) ==
  [s EXCEPT !.paused = FALSE, !.pauseUntil = 0, !.hardPaused = FALSE]

\* ---- RiotApiClient ------------------------------------------------------
\* #platformRequest / #regionalRequest
PlatformRequest(s, t, n) ==
  IF s.keyExpired THEN [s EXCEPT !.outcome[t] = "keyExpired"]
  ELSE Enqueue(s, t, n)

\* (mutant) reloadKey clears the flag and forgets this.#queue.resume().
ReloadKeyNoResume(s, key) ==
  LET s1 == [s EXCEPT !.apiKey = key, !.keyExpiredEmits = 0]
  IN  IF key THEN [s1 EXCEPT !.keyExpired = FALSE] ELSE s1

\* reloadKey; `key` is whether getKey("RIOT_API_KEY") is non-empty.
ReloadKey(s, key) ==
  LET s1 == [s EXCEPT !.apiKey = key, !.keyExpiredEmits = 0]
  IN  IF key THEN QueueResume([s1 EXCEPT !.keyExpired = FALSE]) ELSE s1

\* (mutant) rate-limited is emitted for every 429, retried or not.
On429EmitAlways(s, t, retryAfterMs, n) ==
  LET s1 == [s EXCEPT !.respAt[t] = n, !.retryAfterMs[t] = retryAfterMs,
                      !.dueAt = @ + retryAfterMs,
                      !.rateLimited[t] = @ + 1]
  IN  IF retryAfterMs # 0 /\ s.req[t].attempt < MAX_RETRIES
        THEN Sleep(s1, t, "retry", n + retryAfterMs)
        ELSE Settle(s1, t, "rateLimited", n)

\* (mutant) the retry is started without sleep(err.retryAfterMs).
On429NoSleep(s, t, retryAfterMs, n) ==
  LET s1 == [s EXCEPT !.respAt[t] = n, !.retryAfterMs[t] = retryAfterMs,
                      !.dueAt = @ + retryAfterMs]
  IN  IF retryAfterMs # 0 /\ s.req[t].attempt < MAX_RETRIES
        THEN Sleep(s1, t, "retry", n)
        ELSE Settle([s1 EXCEPT !.rateLimited[t] = @ + 1], t, "rateLimited", n)

\* The catch of #requestWithRetry for a 429 of `retryAfterMs`.
On429(s, t, retryAfterMs, n) ==
  LET s1 == [s EXCEPT !.respAt[t] = n, !.retryAfterMs[t] = retryAfterMs,
                      !.dueAt = @ + retryAfterMs]
  IN  IF retryAfterMs # 0 /\ s.req[t].attempt < MAX_RETRIES
        THEN Sleep(s1, t, "retry", n + retryAfterMs)
        ELSE Settle([s1 EXCEPT !.rateLimited[t] = @ + 1], t, "rateLimited", n)

\* (mutant) the 403 branch sets the flag and forgets this.#queue.pause().
On403NoPause(s, t, n) ==
  LET s1 == IF ~s.keyExpired
              THEN [s EXCEPT !.keyExpired = TRUE, !.keyExpiredEmits = @ + 1]
              ELSE s
  IN  Settle(s1, t, "forbidden", n)

\* #request, the 403 branch
On403(s, t, n) ==
  LET s1 == IF ~s.keyExpired
              THEN [QueuePause([s EXCEPT !.keyExpired = TRUE])
                      EXCEPT !.keyExpiredEmits = @ + 1]
              ELSE s
  IN  Settle(s1, t, "forbidden", n)

\* #request, res.on("end"): the header update, then the status.
OnResponse(s, t, status, retryAfter, header, n) ==
  LET s1 == IF header # <<>>
              THEN [s EXCEPT !.buckets = ParseBuckets(header),
                             !.sentLog =
                                IF Limits(ParseBuckets(header)) = Limits(s.buckets)
                                  THEN @ ELSE <<>>]
              ELSE s
  IN  CASE status = 200 -> Settle(s1, t, "resolved", n)
        [] status = 429 -> On429(s1, t, retryAfter * TICKS_PER_SECOND, n)
        [] status = 403 -> On403(s1, t, n)
        [] OTHER -> Settle(s1, t, "failed", n)

\* A sleep of #requestWithRetry ends.
OnWake(s, t, n) ==
  LET pc == s.req[t].pc
  IN  CASE pc = "limiter" -> Spacing(s, t, n)
        [] pc = "spacing" -> Available(s, t, n)
        [] pc = "bucket" -> Fire(s, t, n)
        [] pc = "retry" -> RequestWithRetry(s, t, s.req[t].attempt + 1, n)

\* ---- actions ------------------------------------------------------------
\* A caller invokes one of the public API methods.
ApiCall ==
  /\ sched.nextTask <= MaxTasks
  /\ SetSched(PlatformRequest([SchedState EXCEPT !.nextTask = @ + 1],
                              sched.nextTask, now))
  /\ UNCHANGED <<now, phaseVars, advisorVars, otherVars>>

\* The response of the request in flight arrives (or the request fails).
HttpResponse ==
  /\ \E t \in Tasks :
       /\ sched.req[t].pc = "http"
       /\ \E status \in StatusCodes, header \in RateHeaders :
            \E retryAfter \in IF status = 429 THEN RetryAfters ELSE {0} :
              SetSched(OnResponse(SchedState, t, status, retryAfter, header, now))
  /\ UNCHANGED <<now, phaseVars, advisorVars, otherVars>>

\* setTimeout fires, at its time or later.
TimerFires ==
  /\ \E t \in Tasks :
       /\ sched.req[t].pc \in {"limiter", "spacing", "bucket", "retry"}
       /\ now >= sched.req[t].wake
       /\ SetSched(OnWake(SchedState, t, now))
  /\ UNCHANGED <<now, phaseVars, advisorVars, otherVars>>

\* The drain loop's sleep(remaining) ends: lines 179-180, then on.
SoftPauseEnds ==
  /\ sched.loop.pc = "softSleep"
  /\ now >= sched.loop.wake
  /\ SetSched(DrainCheck([SchedState EXCEPT !.paused = FALSE,
                                            !.pauseUntil = 0,
                                            !.loop = LoopIdle], now))
  /\ UNCHANGED <<now, phaseVars, advisorVars, otherVars>>

\* Settings UI: keys saved, riotApi.reloadKey()
ReloadKeyCall ==
  /\ \E key \in BOOLEAN : SetSched(ReloadKey(SchedState, key))
  /\ UNCHANGED <<now, phaseVars, advisorVars, otherVars>>

\* Time passes.  Nothing depends on the clock before the first call (no
\* timestamp exists yet), so the clock is read from the first call on.
Tick ==
  /\ now < MaxTime
  /\ sched.nextTask > 1
  /\ now' = now + 1
  /\ UNCHANGED <<sched, hist, phaseVars, advisorVars, otherVars>>

\* ---- the same machine, with the requests sent logged -------------------
\* A caller invokes one of the public API methods.
ApiCallLogged ==
  /\ sched.nextTask <= MaxTasks
  /\ SetLogged(PlatformRequest([SchedState EXCEPT !.nextTask = @ + 1],
                                sched.nextTask, now))
  /\ UNCHANGED <<now, phaseVars, advisorVars, otherVars>>

\* The response of the request in flight arrives (or the request fails).
HttpResponseLogged ==
  /\ \E t \in Tasks :
       /\ sched.req[t].pc = "http"
       /\ \E status \in StatusCodes, header \in RateHeaders :
            \E retryAfter \in IF status = 429 THEN RetryAfters ELSE {0} :
              SetLogged(OnResponse(SchedState, t, status, retryAfter, header, now))
  /\ UNCHANGED <<now, phaseVars, advisorVars, otherVars>>

\* setTimeout fires, at its time or later.
TimerFiresLogged ==
  /\ \E t \in Tasks :
       /\ sched.req[t].pc \in {"limiter", "spacing", "bucket", "retry"}
       /\ now >= sched.req[t].wake
       /\ SetLogged(OnWake(SchedState, t, now))
  /\ UNCHANGED <<now, phaseVars, advisorVars, otherVars>>

\* The drain loop's sleep(remaining) ends.
SoftPauseEndsLogged ==
  /\ sched.loop.pc = "softSleep"
  /\ now >= sched.loop.wake
  /\ SetLogged(DrainCheck([SchedState EXCEPT !.paused = FALSE,
                                             !.pauseUntil = 0,
                                             !.loop = LoopIdle], now))
  /\ UNCHANGED <<now, phaseVars, advisorVars, otherVars>>

LimitsNext ==
  \/ ApiCallLogged
  \/ HttpResponseLogged
  \/ TimerFiresLogged
  \/ SoftPauseEndsLogged
  \/ Tick

\* ---- the same machine, with the clock kept relative ----------------------
\* The scheduler reads the clock only through differences, so a run without
\* a horizon is kept finite by letting a tick move every timestamp one back
\* instead of moving `now` forward.  A stamp that has aged out of its window
\* is pruned as the next read would prune it.  A timestamp that has reached
\* Floor is WINDOW_MS old, older than the spacing and than every bucket
\* window a header announces; it is held there.  (The stamps of the default
\* 100:120 bucket are held too: it never fills, since a run sends at most
\* MaxLiveTasks * (MAX_RETRIES + 1) requests.)  0 stays 0: it is "never" in
\* every field.
Floor == StartTime - WINDOW_MS

Older(x) == IF x = 0 THEN 0 ELSE Max(x - 1, Floor)

OlderSeq(ts) == [i \in 1..Len(ts) |-> Older(ts[i])]

\* Date.now() one tick later, seen from the same `now`.
Elapse(s) ==
  [s EXCEPT
     !.pauseUntil = Older(@),
     !.windowTimestamps = PruneWindow(OlderSeq(@), now),
     !.buckets = [i \in 1..Len(@) |->
                    BucketPrune([@[i] EXCEPT !.timestamps = OlderSeq(@)], now)],
     !.lastRequestTime =
        IF @ = 0 THEN 0 ELSE Max(@ - 1, now - REQUEST_SPACING_MS),
     !.loop = [@ EXCEPT !.wake = Older(@)],
     !.req = [t \in Tasks |-> [@[t] EXCEPT !.wake = Older(@)]],
     !.sentAt = [t \in Tasks |-> Older(@[t])]]

\* These runs observe less: whether a task is waiting, in service or
\* settled, the order of dispatch, and when the request in flight was sent.
Forget(s) ==
  [s EXCEPT
     !.outcome = [t \in Tasks |->
                    IF @[t] \in {"new", "queued", "running"} THEN @[t]
                    ELSE "settled"],
     !.httpSent = [t \in Tasks |-> 0],
     !.rateLimited = [t \in Tasks |-> 0],
     !.lastConsume = "none",
     !.respAt = [t \in Tasks |-> 0],
     !.retryAfterMs = [t \in Tasks |-> 0],
     !.dispatchedAt = [t \in Tasks |-> 0],
     !.dueAt = 0,
     !.lastSentAt = 0]

SetLive(s) == SetSched(Forget(s))

\* A timer is due and has not fired.
TimerDue ==
  \/ \E t \in Tasks :
       /\ sched.req[t].pc \in {"limiter", "spacing", "bucket", "retry"}
       /\ now >= sched.req[t].wake
  \/ sched.loop.pc = "softSleep" /\ now >= sched.loop.wake

\* A request has been in flight for MaxLatency.
ResponseDue ==
  \E t \in Tasks :
    sched.req[t].pc = "http" /\ now - hist.sentAt[t] >= MaxLatency

\* Time passes (relative clock).  In these runs a timer fires in the tick it
\* is due and a request completes within MaxLatency.
TickRel ==
  /\ sched.nextTask > 1
  /\ ~TimerDue
  /\ ~ResponseDue
  /\ SetLive(Elapse(SchedState))
  /\ UNCHANGED <<now, phaseVars, advisorVars, otherVars>>

\* A caller invokes one of the public API methods.
ApiCallLive ==
  /\ sched.nextTask <= MaxLiveTasks
  /\ SetLive(PlatformRequest([SchedState EXCEPT !.nextTask = @ + 1],
                             sched.nextTask, now))
  /\ UNCHANGED <<now, phaseVars, advisorVars, otherVars>>

\* The response of the request in flight arrives (or the request fails).
HttpResponseLive ==
  /\ \E t \in Tasks :
       /\ sched.req[t].pc = "http"
       /\ \E status \in StatusCodes, header \in RateHeaders :
            \E retryAfter \in IF status = 429 THEN RetryAfters ELSE {0} :
              SetLive(OnResponse(SchedState, t, status, retryAfter, header, now))
  /\ UNCHANGED <<now, phaseVars, advisorVars, otherVars>>

\* setTimeout fires.
TimerFiresLive ==
  /\ \E t \in Tasks :
       /\ sched.req[t].pc \in {"limiter", "spacing", "bucket", "retry"}
       /\ now >= sched.req[t].wake
       /\ SetLive(OnWake(SchedState, t, now))
  /\ UNCHANGED <<now, phaseVars, advisorVars, otherVars>>

\* The drain loop's sleep(remaining) ends.
SoftPauseEndsLive ==
  /\ sched.loop.pc = "softSleep"
  /\ now >= sched.loop.wake
  /\ SetLive(DrainCheck([SchedState EXCEPT !.paused = FALSE,
                                           !.pauseUntil = 0,
                                           !.loop = LoopIdle], now))
  /\ UNCHANGED <<now, phaseVars, advisorVars, otherVars>>

\* Settings UI: keys saved, riotApi.reloadKey()
ReloadKeyCallLive ==
  /\ \E key \in BOOLEAN : SetLive(ReloadKey(SchedState, key))
  /\ UNCHANGED <<now, phaseVars, advisorVars, otherVars>>

\* A caller invokes one of the public API methods (runs of SpecSoft).
ApiCallSoft ==
  /\ sched.nextTask <= MaxSoftTasks
  /\ SetLive(PlatformRequest([SchedState EXCEPT !.nextTask = @ + 1],
                             sched.nextTask, now))
  /\ UNCHANGED <<now, phaseVars, advisorVars, otherVars>>

\* A holder of the exported BottleneckQueue calls pause().  (RiotApiClient
\* itself calls it from the 403 branch only, while the loop awaits run().)
QueuePauseCall ==
  /\ SetLive(QueuePause(SchedState))
  /\ UNCHANGED <<now, phaseVars, advisorVars, otherVars>>

QueueNext ==
  \/ ApiCallSoft
  \/ HttpResponseLive
  \/ TimerFiresLive
  \/ SoftPauseEndsLive
  \/ ReloadKeyCallLive
  \/ QueuePauseCall
  \/ TickRel

SoftNext ==
  \/ ApiCallSoft
  \/ HttpResponseLive
  \/ TimerFiresLive
  \/ SoftPauseEndsLive
  \/ ReloadKeyCallLive
  \/ TickRel

LiveNext ==
  \/ ApiCallLive
  \/ HttpResponseLive
  \/ TimerFiresLive
  \/ SoftPauseEndsLive
  \/ ReloadKeyCallLive
  \/ TickRel

SchedNext ==
  \/ ApiCall
  \/ HttpResponse
  \/ TimerFires
  \/ SoftPauseEnds
  \/ ReloadKeyCall
  \/ Tick

\* ========================================================================
\* MacroStrategist (the live advisor)
\* ========================================================================
\* One advisor instance is created per activation (Orchestrator.#createAgent);
\* `act` numbers the instances.  A tool loop started by an instance keeps
\* running after the instance has been stopped.

Activations == 1..MaxActivations

\* A run of SpecMacro lasts one tick longer than the cooldown.
MacroMaxTime == StartTime + MIN_ADVICE_INTERVAL + 1

NoCall == "null"   \* TriggerResult.localCall / localCallType: null

Trigger(u, c, w) == [urgency |-> u, localCallType |-> c, claudeWorthy |-> w]

\* Results TriggerDetector.evaluateSnapshot can return (four of them).
SnapshotTriggers ==
  { Trigger("urgent", "RESET_NOW", FALSE),
    Trigger("urgent", "CONTEST_OBJECTIVE", FALSE),
    Trigger("suggestion", NoCall, TRUE),
    Trigger("info", NoCall, FALSE) }

\* Results TriggerDetector.evaluateEvents can return.
EventTriggers ==
  { Trigger("urgent", NoCall, TRUE),
    Trigger("info", NoCall, FALSE) }

\* What one evaluation returns: no trigger, one, or two in evaluation order.
TriggerLists(S) ==
  {<<>>} \cup {<<a>> : a \in S} \cup {<<a, b>> : a \in S, b \in S}

\* A snapshot event of the live client: an empty body, a body without
\* players, or game data on which the detector finds `triggers`.
Snapshots ==
  {[kind |-> "empty", triggers |-> <<>>], [kind |-> "noPlayers", triggers |-> <<>>]}
    \cup {[kind |-> "valid", triggers |-> ts] : ts \in TriggerLists(SnapshotTriggers)}

EventBatches == TriggerLists(EventTriggers)

\* What the LLM passes to emit_macro_call.
LlmCalls == {[call_type |-> "GROUP_MID", urgency |-> "suggestion", source |-> "llm"]}

MacroInit ==
  [ active         |-> FALSE,    \* BaseAgent.#active of the current instance
    act            |-> 0,        \* instances created so far
    lastAdviceTime |-> 0,        \* #lastAdviceTime
    invoking       |-> FALSE,    \* #invoking
    hasSnapshot    |-> FALSE,    \* #latestSnapshot is truthy
    loops          |-> [a \in Activations |-> FALSE] ]  \* runToolLoop in flight

\* What the step that led to the current state did: the handler that ran,
\* the triggers it had to handle, how it ended, and the MACRO_CALL messages
\* sent to the overlay.
NoStep == [handler |-> "none", triggers |-> <<>>, outcome |-> "none", sent |-> <<>>,
   by |-> 0]

Handling(handler, triggers) ==
  [handler |-> handler, triggers |-> triggers, outcome |-> "ignored", sent |-> <<>>,
   by |-> 0]

AdviceInit ==
  [ prevSendAt  |-> 0,       \* send times of the current instance's last two
    lastSendAt  |-> 0,       \*   messages while it is active (0: none)
    dispatchAt  |-> 0,       \* time of the last dispatch (a local call
                             \*   emitted or an LLM invocation started)
    dispatchAct |-> 0,       \* instance that made it
    step        |-> NoStep ]

MacroState == macro @@ advice

SetMacro(s) ==
  /\ macro' = [f \in DOMAIN macro |-> s[f]]
  /\ advice' = [f \in DOMAIN advice |-> s[f]]

\* priorityOrder[t.urgency] ?? 3
PriorityOrder(u) ==
  CASE u = "urgent" -> 0
    [] u = "suggestion" -> 1
    [] u = "info" -> 2
    [] OTHER -> 3

\* (mutant) an unstable sort: a trigger goes before its equals.
InsertFirst(sorted, t) ==
  LET k == Cardinality({i \in 1..Len(sorted) :
                          PriorityOrder(sorted[i].urgency) < PriorityOrder(t.urgency)})
  IN  SubSeq(sorted, 1, k) \o <<t>> \o SubSeq(sorted, k + 1, Len(sorted))

\* Array.prototype.sort is stable: a trigger goes after its equals.
Insert(sorted, t) ==
  LET k == Cardinality({i \in 1..Len(sorted) :
                          PriorityOrder(sorted[i].urgency) <= PriorityOrder(t.urgency)})
  IN  SubSeq(sorted, 1, k) \o <<t>> \o SubSeq(sorted, k + 1, Len(sorted))

RECURSIVE SortByUrgency(_)
SortByUrgency(triggers) ==
  IF triggers = <<>> THEN <<>>
  ELSE Insert(SortByUrgency(SubSeq(triggers, 1, Len(triggers) - 1)),
              triggers[Len(triggers)])

IsClaudeWorthy(t) == t.claudeWorthy

\* BaseAgent.sendToOverlay(IPC_CHANNELS.MACRO_CALL, macroCall) by instance a
SendToOverlay(s, a, call, n) ==
  IF s.active /\ a = s.act
    THEN [s EXCEPT !.step.sent = Append(@, call), !.step.by = a,
                   !.prevSendAt = s.lastSendAt, !.lastSendAt = n]
    ELSE [s EXCEPT !.step.sent = Append(@, call), !.step.by = a]

Dispatched(s, n, how) ==
  [s EXCEPT !.dispatchAt = n, !.dispatchAct = s.act, !.step.outcome = how]

\* (mutant) the cooldown check never holds a trigger back.
CooldownNever(s, n) == FALSE

\* now - this.#lastAdviceTime < this.#MIN_ADVICE_INTERVAL
CooldownActive(s, n) == n - s.lastAdviceTime < MIN_ADVICE_INTERVAL

\* MacroStrategist.#emitLocalCall(trigger)
EmitLocalCall(s, trigger, n) ==
  SendToOverlay(Dispatched([s EXCEPT !.lastAdviceTime = n], n, "local"),
                s.act,
                [call_type |-> trigger.localCallType,
                 urgency |-> trigger.urgency,
                 source |-> "local"],
                n)

\* MacroStrategist.#maybeInvokeClaude(triggers), up to `await this.invoke`
MaybeInvokeClaude(s, triggers, n) ==
  IF s.invoking \/ ~s.hasSnapshot
    THEN [s EXCEPT !.step.outcome = "busy"]
    ELSE Dispatched([s EXCEPT !.invoking = TRUE,
                              !.lastAdviceTime = n,
                              !.loops[s.act] = TRUE], n, "llm")

\* MacroStrategist.#handleSnapshot(snapshot)
HandleSnapshot(s, snapshot, n) ==
  LET s1 == [s EXCEPT !.hasSnapshot = snapshot.kind # "empty",
                      !.step = Handling("snapshot", snapshot.triggers)]
  IN  IF snapshot.kind # "valid" THEN s1
      ELSE IF snapshot.triggers = <<>> THEN s1
      ELSE IF CooldownActive(s1, n) THEN [s1 EXCEPT !.step.outcome = "suppressed"]
      ELSE LET sorted == SortByUrgency(snapshot.triggers)
               top == sorted[1]
           IN  IF top.localCallType # NoCall
                 THEN EmitLocalCall(s1, top, n)
               ELSE IF top.claudeWorthy
                 THEN MaybeInvokeClaude(s1, SelectSeq(sorted, IsClaudeWorthy), n)
               ELSE s1

\* MacroStrategist.#handleNewEvents(events)
HandleNewEvents(s, triggers, n) ==
  LET s1 == [s EXCEPT !.step = Handling("events", triggers)]
  IN  IF triggers = <<>> THEN s1
      ELSE IF CooldownActive(s1, n) THEN [s1 EXCEPT !.step.outcome = "suppressed"]
      ELSE LET claudeWorthy == SelectSeq(triggers, IsClaudeWorthy)
           IN  IF claudeWorthy # <<>>
                 THEN MaybeInvokeClaude(s1, claudeWorthy, n)
                 ELSE s1

\* MacroStrategist.#handleEmitMacroCall, called from instance a's tool loop
HandleEmitMacroCall(s, a, call, n) ==
  SendToOverlay([s EXCEPT !.step = [Handling("emit_macro_call", <<>>)
                                      EXCEPT !.outcome = "emit"]],
                a, call, n)

\* #maybeInvokeClaude's finally, in instance a
InvokeDone(s, a) ==
  [s EXCEPT !.loops[a] = FALSE,
            !.invoking = IF a = s.act THEN FALSE ELSE @,
            !.step = NoStep]

\* #createAgent + start(): field initialisers and onActivate
OnActivate(s) ==
  [s EXCEPT !.active = TRUE, !.act = @ + 1, !.lastAdviceTime = 0,
            !.invoking = FALSE, !.hasSnapshot = FALSE,
            !.prevSendAt = 0, !.lastSendAt = 0, !.step = NoStep]

\* stop(): onDeactivate
OnDeactivate(s) ==
  [s EXCEPT !.active = FALSE, !.invoking = FALSE, !.step = NoStep]

\* ---- events of the live advisor ----
SnapshotStep(snapshot) == SetMacro(HandleSnapshot(MacroState, snapshot, now))

EventsStep(triggers) == SetMacro(HandleNewEvents(MacroState, triggers, now))

\* The orchestrator activates the live advisor (IN_GAME entered, or resume).
MacroActivate ==
  /\ ~macro.active
  /\ macro.act < MaxActivations
  /\ SetMacro(OnActivate(MacroState))
  /\ UNCHANGED <<schedVars, phaseVars, clientVars, otherVars>>

\* The orchestrator stops it (IN_GAME left, or pauseAgents).
MacroDeactivate ==
  /\ macro.active
  /\ SetMacro(OnDeactivate(MacroState))
  /\ UNCHANGED <<schedVars, phaseVars, clientVars, otherVars>>

\* liveClient 'snapshot'
SnapshotArrives ==
  /\ macro.active
  /\ \E snapshot \in Snapshots : SnapshotStep(snapshot)
  /\ UNCHANGED <<schedVars, phaseVars, clientVars, otherVars>>

\* liveClient 'new-events'
NewEventsArrive ==
  /\ macro.active
  /\ \E triggers \in EventBatches : EventsStep(triggers)
  /\ UNCHANGED <<schedVars, phaseVars, clientVars, otherVars>>

\* The LLM's answer holds an emit_macro_call tool use.
LlmEmitsMacroCall ==
  /\ \E a \in Activations, call \in LlmCalls :
       /\ macro.loops[a]
       /\ SetMacro(HandleEmitMacroCall(MacroState, a, call, now))
  /\ UNCHANGED <<schedVars, phaseVars, clientVars, otherVars>>

\* runToolLoop returns or throws.
LlmReturns ==
  /\ \E a \in Activations :
       /\ macro.loops[a]
       /\ SetMacro(InvokeDone(MacroState, a))
  /\ UNCHANGED <<schedVars, phaseVars, clientVars, otherVars>>

MacroTick ==
  /\ now < MacroMaxTime
  /\ now' = now + 1
  /\ advice' = [advice EXCEPT !.step = NoStep]
  /\ UNCHANGED <<sched, hist, phaseVars, macro, clientVars, otherVars>>

MacroNext ==
  \/ MacroActivate
  \/ MacroDeactivate
  \/ SnapshotArrives
  \/ NewEventsArrive
  \/ LlmEmitsMacroCall
  \/ LlmReturns
  \/ MacroTick

\* ========================================================================
\* LiveClientAPI: the event poll
\* ========================================================================
\* The game's event list holds EventIDs 0 .. events - 1 and only grows; a
\* response carries the list as it was when the server answered.

ClientInit ==
  [ eventTimer  |-> FALSE,   \* #eventTimer # null (#snapshotTimer is set and
                             \*   cleared with it)
    timers      |-> 0,       \* event intervals alive (a second startPolling
                             \*   overwrites #eventTimer, the first one stays)
    lastEventId |-> -1,      \* #lastEventId
    polls       |-> 0,       \* getEventData() requests in flight
    snapTimers  |-> 0,       \* snapshot intervals alive
    wasAvailable |-> FALSE,  \* #wasAvailable
    snapPolls   |-> 0,       \* getAllGameData() requests of the interval in flight
    firstPolls  |-> 0 ]      \* getAllGameData() requests of startPolling in flight

FeedInit ==
  [ events       |-> 0,      \* events on the game's list
    resets       |-> 0,      \* startPolling + stopPolling calls
    emissions    |-> 0,      \* 'new-events' emissions
    lastEmission |-> {},     \* EventIDs of the last emission
    maxEmitted   |-> -1,     \* highest EventID emitted so far
    maxSinceReset |-> -1,    \* ... since the last startPolling/stopPolling
    avail        |-> <<>> ]  \* the last two "available"/"unavailable" emissions
                             \*   since the last startPolling/stopPolling

ClientState == client @@ feed

SetClient(s) ==
  /\ client' = [f \in DOMAIN client |-> s[f]]
  /\ feed' = [f \in DOMAIN feed |-> s[f]]

SetMax(S) == CHOOSE x \in S : \A y \in S : y <= x

\* LiveClientAPI.startPolling: both intervals and the immediate first poll
StartPolling(s) ==
  [s EXCEPT !.lastEventId = -1, !.eventTimer = TRUE, !.timers = @ + 1,
            !.snapTimers = @ + 1, !.firstPolls = @ + 1,
            !.resets = @ + 1, !.maxSinceReset = -1, !.avail = <<>>]

\* LiveClientAPI.stopPolling
StopPolling(s) ==
  [s EXCEPT !.lastEventId = -1, !.eventTimer = FALSE,
            !.timers = IF s.eventTimer THEN @ - 1 ELSE @,
            !.snapTimers = IF s.eventTimer THEN @ - 1 ELSE @,
            !.wasAvailable = FALSE,
            !.resets = @ + 1, !.maxSinceReset = -1, !.avail = <<>>]

Emission(s, newEvents) ==
  [s EXCEPT !.emissions = @ + 1, !.lastEmission = newEvents,
            !.maxEmitted = Max(@, SetMax(newEvents)),
            !.maxSinceReset = Max(@, SetMax(newEvents))]

\* (mutant) the poll forgets to advance #lastEventId.
OnEventDataKeepId(s, k) ==
  LET newEvents == {e \in 0..(k - 1) : e > s.lastEventId}
      s1 == [s EXCEPT !.polls = @ - 1]
  IN  IF newEvents # {} THEN Emission(s1, newEvents) ELSE s1

\* The event timer's callback after `await this.getEventData()`; the
\* response lists events 0 .. k - 1.
OnEventData(s, k) ==
  LET newEvents == {e \in 0..(k - 1) : e > s.lastEventId}
      s1 == [s EXCEPT !.polls = @ - 1]
  IN  IF newEvents # {}
        THEN Emission([s1 EXCEPT !.lastEventId = SetMax(newEvents)], newEvents)
        ELSE s1

\* this.emit("available") / this.emit("unavailable")
EmitAvailability(s, event) ==
  [s EXCEPT !.avail = IF Len(@) < 2 THEN Append(@, event)
                      ELSE <<@[2], event>>]

\* The snapshot interval's callback after `await this.getAllGameData()`.
OnSnapshotData(s) ==
  LET s1 == [s EXCEPT !.snapPolls = @ - 1]
  IN  IF ~s.wasAvailable
        THEN EmitAvailability([s1 EXCEPT !.wasAvailable = TRUE], "available")
        ELSE s1

\* The snapshot interval's catch.
OnSnapshotError(s) ==
  LET s1 == [s EXCEPT !.snapPolls = @ - 1]
  IN  IF s.wasAvailable
        THEN EmitAvailability([s1 EXCEPT !.wasAvailable = FALSE],
                              "unavailable")
        ELSE s1

\* The `.then` of the immediate first poll.
OnFirstPollData(s) ==
  EmitAvailability([s EXCEPT !.firstPolls = @ - 1, !.wasAvailable = TRUE],
                   "available")

\* startPolling(10000, 5000)
StartPollingCall ==
  /\ client.timers < MaxTimers
  /\ feed.resets < MaxResets
  /\ SetClient(StartPolling(ClientState))
  /\ UNCHANGED <<schedVars, phaseVars, macro, advice, otherVars>>

\* stopPolling()
StopPollingCall ==
  /\ feed.resets < MaxResets
  /\ SetClient(StopPolling(ClientState))
  /\ UNCHANGED <<schedVars, phaseVars, macro, advice, otherVars>>

\* An event interval fires: the callback starts getEventData().
EventTimerFires ==
  /\ client.timers > 0
  /\ client.polls < MaxPolls
  /\ SetClient([ClientState EXCEPT !.polls = @ + 1])
  /\ UNCHANGED <<schedVars, phaseVars, macro, advice, otherVars>>

\* The response arrives.
EventDataArrives ==
  /\ client.polls > 0
  /\ \E k \in 0..feed.events : SetClient(OnEventData(ClientState, k))
  /\ UNCHANGED <<schedVars, phaseVars, macro, advice, otherVars>>

\* The request fails: the callback's catch does nothing.
EventDataFails ==
  /\ client.polls > 0
  /\ SetClient([ClientState EXCEPT !.polls = @ - 1])
  /\ UNCHANGED <<schedVars, phaseVars, macro, advice, otherVars>>

\* A snapshot interval fires: the callback starts getAllGameData().
SnapshotTimerFires ==
  /\ client.snapTimers > 0
  /\ client.snapPolls < MaxPolls
  /\ SetClient([ClientState EXCEPT !.snapPolls = @ + 1])
  /\ UNCHANGED <<schedVars, phaseVars, macro, advice, otherVars>>

\* Its request answers.
SnapshotDataArrives ==
  /\ client.snapPolls > 0
  /\ SetClient(OnSnapshotData(ClientState))
  /\ UNCHANGED <<schedVars, phaseVars, macro, advice, otherVars>>

\* Its request fails or times out.
SnapshotDataFails ==
  /\ client.snapPolls > 0
  /\ SetClient(OnSnapshotError(ClientState))
  /\ UNCHANGED <<schedVars, phaseVars, macro, advice, otherVars>>

\* The immediate first poll answers.
FirstPollArrives ==
  /\ client.firstPolls > 0
  /\ SetClient(OnFirstPollData(ClientState))
  /\ UNCHANGED <<schedVars, phaseVars, macro, advice, otherVars>>

\* The immediate first poll fails: its catch does nothing.
FirstPollFails ==
  /\ client.firstPolls > 0
  /\ SetClient([ClientState EXCEPT !.firstPolls = @ - 1])
  /\ UNCHANGED <<schedVars, phaseVars, macro, advice, otherVars>>

\* Something happens in the game.
GameEvent ==
  /\ feed.events < MaxEvents
  /\ SetClient([ClientState EXCEPT !.events = @ + 1])
  /\ UNCHANGED <<schedVars, phaseVars, macro, advice, otherVars>>

ClientNext ==
  \/ StartPollingCall
  \/ StopPollingCall
  \/ EventTimerFires
  \/ EventDataArrives
  \/ EventDataFails
  \/ GameEvent

\* The snapshot poll and the immediate first poll.
AvailNext ==
  \/ StartPollingCall
  \/ StopPollingCall
  \/ SnapshotTimerFires
  \/ SnapshotDataArrives
  \/ SnapshotDataFails
  \/ FirstPollArrives
  \/ FirstPollFails

PhaseInit ==
  /\ currentPhase = IDLE
  /\ returned = "none"
  /\ emitted = <<>>
  /\ emitCount = 0
  /\ activeAgents = <<>>
  /\ agentActive = [a \in AgentIds |-> FALSE]
  /\ orphans = {}
  /\ microtasks = <<>>
  /\ lcuConnected = FALSE
  /\ pendingReads = 0
  /\ paused = FALSE
  /\ published = [open |-> [a \in AgentIds |-> FALSE], unpaired |-> FALSE]
  /\ gameflow = GameflowInit

PhaseNext ==
  \/ LcuConnected
  \/ PhaseReadDone
  \/ PhaseReadFail
  \/ LcuDisconnected
  \/ PhaseChanged
  \/ PauseAgents
  \/ ResumeAgents
  \/ KeySavePropagated
  \/ RunMicrotask

GameflowNext ==
  \/ ConnectedInPhase
  \/ PhaseReadServed
  \/ PhaseReadArrives
  \/ PhaseReadLost
  \/ GameflowEvent
  \/ LcuDisconnected
  \/ RunMicrotask

\* ========================================================================
\* lcu-connector.js: LCUConnector
\* ========================================================================
\* Time is counted in seconds for the reconnect timers only; a timer holds
\* the seconds left until it fires.  The lockfile is named by the launch of
\* the client that wrote it (0: no lockfile); the credentials read from it
\* carry the same number.
RECONNECT_MS == 3          \* the 3000 of `setTimeout(..., 3000)`, in seconds
MaxSessions == 2           \* launches of the League client in a run
MaxSockets == 3            \* WebSocket objects created in a run

NoCredentials == 0

LcuStep == [emit |-> "none", attempt |-> NoCredentials]

\*   started     : start() was called
\*   interval    : #pollInterval is set
\*   polling     : #polling
\*   pc          : where the #poll in flight is suspended
\*   credentials : #credentials
\*   ws          : #ws, the index of a socket in socks (0: null)
\*   wsConnecting: #wsConnecting
\*   socks       : the WebSocket objects created so far
\*   timers      : the pending reconnect timeouts
\*   file, launches : the lockfile on disk, the launches so far
\*   lastEvent, cleared, shut, step : what has been observed
LcuInit ==
  [started |-> FALSE, interval |-> FALSE, polling |-> FALSE, pc |-> "idle",
   credentials |-> NoCredentials, ws |-> 0, wsConnecting |-> FALSE,
   socks |-> <<>>, timers |-> <<>>, file |-> 0, launches |-> 0,
   lastEvent |-> "none", cleared |-> {}, shut |-> FALSE, step |-> LcuStep]

\* this.emit("connected", session) / this.emit("disconnected")
LcuEmit(s, event) ==
  [s EXCEPT !.lastEvent = event, !.step.emit = event]

\* ws.close(): the 'close' event of the socket follows later.
WsCloseCall(s, i) ==
  IF s.socks[i].st \in {"connecting", "open"}
    THEN [s EXCEPT !.socks[i].st = "closing"]
    ELSE s

\* LCUConnector.#connectWebSocket up to `this.#ws = ws`.
ConnectWebSocket(s) ==
  IF s.credentials = NoCredentials \/ s.wsConnecting THEN s
  ELSE [s EXCEPT !.wsConnecting = TRUE,
                 !.socks = Append(@, [cred |-> s.credentials,
                                      st |-> "connecting"]),
                 !.ws = Len(s.socks) + 1,
                 !.step.attempt = s.credentials]

\* LCUConnector.#poll up to `await this.#findLockfile()`.
Poll(s) ==
  IF s.polling THEN s
  ELSE [s EXCEPT !.polling = TRUE, !.pc = "find"]

\* The `finally` of #poll.
PollEnds(s) == [s EXCEPT !.polling = FALSE, !.pc = "idle"]

\* (mutant) #poll reading the lockfile whenever it is found.
AfterFindAlwaysParses(s, found) ==
  IF found THEN [s EXCEPT !.pc = "parse"] ELSE PollEnds(s)

\* #poll after `await this.#findLockfile()`: `found` is whether a path came
\* back.  With a path and no credentials it goes on to
\* `await this.#parseLockfile()`; with credentials and no path it clears
\* them, closes the socket and emits "disconnected".
AfterFind(s, found) ==
  IF found /\ s.credentials = NoCredentials
    THEN [s EXCEPT !.pc = "parse"]
  ELSE IF ~found /\ s.credentials # NoCredentials
    THEN LET s1 == [s EXCEPT !.credentials = NoCredentials,
                             !.cleared = @ \cup {s.credentials}]
             s2 == IF s.ws # 0
                     THEN [WsCloseCall(s1, s.ws) EXCEPT !.ws = 0]
                     ELSE s1
         IN  PollEnds(LcuEmit(s2, "disconnected"))
  ELSE PollEnds(s)

\* #poll after `await this.#parseLockfile()`: `creds` is what was parsed
\* (NoCredentials: null).
AfterParse(s, creds) ==
  IF creds # NoCredentials
    THEN PollEnds(ConnectWebSocket(
           LcuEmit([s EXCEPT !.credentials = creds], "connected")))
    ELSE PollEnds(s)

\* The 'close' handler of socket i.
OnWsClose(s, i) ==
  LET s1 == [s EXCEPT !.socks[i].st = "closed",
                      !.wsConnecting = FALSE,
                      !.ws = 0]
  IN  IF s.credentials # NoCredentials
        THEN [s1 EXCEPT !.timers = Append(@, RECONNECT_MS)]
        ELSE s1

\* LCUConnector.shutdown()
Shutdown(s) ==
  LET s1 == IF s.ws # 0 THEN [WsCloseCall(s, s.ws) EXCEPT !.ws = 0] ELSE s
  IN  [s1 EXCEPT !.interval = FALSE,
                 !.credentials = NoCredentials,
                 !.cleared = IF s.credentials # NoCredentials
                               THEN @ \cup {s.credentials} ELSE @,
                 !.shut = TRUE]

SetLcu(s) == lcu' = s

Fresh == [lcu EXCEPT !.step = LcuStep]

UnchangedByConnector ==
  UNCHANGED <<phaseVars, schedVars, advisorVars, oracle, loop, detector, gameClock>>

\* start(): the immediate #poll() and the interval.
LcuStart ==
  /\ ~lcu.started
  /\ SetLcu([Poll(Fresh) EXCEPT !.started = TRUE, !.interval = TRUE])
  /\ UnchangedByConnector

\* The interval fires: #poll().
PollTick ==
  /\ lcu.interval
  /\ SetLcu(Poll(Fresh))
  /\ UnchangedByConnector

\* #findLockfile() answers with what is on disk.
FindDone ==
  /\ lcu.pc = "find"
  /\ SetLcu(AfterFind(Fresh, lcu.file # 0))
  /\ UnchangedByConnector

\* #parseLockfile() answers: the credentials on disk, or null when the
\* lockfile has gone meanwhile (readFile fails).
ParseDone ==
  /\ lcu.pc = "parse"
  /\ Len(lcu.socks) < MaxSockets
  /\ SetLcu(AfterParse(Fresh, lcu.file))
  /\ UnchangedByConnector

\* The League client is launched and writes its lockfile.
ClientStarts ==
  /\ lcu.file = 0
  /\ lcu.launches < MaxSessions
  /\ SetLcu([Fresh EXCEPT !.file = lcu.launches + 1,
                          !.launches = lcu.launches + 1])
  /\ UnchangedByConnector

\* The League client exits and its lockfile goes.
ClientExits ==
  /\ lcu.file # 0
  /\ SetLcu([Fresh EXCEPT !.file = 0])
  /\ UnchangedByConnector

\* The 'open' event of a socket.
WsOpen ==
  /\ \E i \in 1..Len(lcu.socks) :
       /\ lcu.socks[i].st = "connecting"
       /\ SetLcu([Fresh EXCEPT !.socks[i].st = "open",
                               !.wsConnecting = FALSE])
  /\ UnchangedByConnector

\* The 'close' event of a socket: the handshake failed ('error', then
\* 'close'), the client dropped the connection, or close() was called.
WsClose ==
  /\ \E i \in 1..Len(lcu.socks) :
       /\ lcu.socks[i].st # "closed"
       /\ SetLcu(OnWsClose(Fresh, i))
  /\ UnchangedByConnector

\* A second passes.
LcuTick ==
  /\ lcu.timers # <<>>
  /\ \A i \in 1..Len(lcu.timers) : lcu.timers[i] > 0
  /\ SetLcu([Fresh EXCEPT !.timers = [i \in 1..Len(lcu.timers) |->
                                         lcu.timers[i] - 1]])
  /\ UnchangedByConnector

\* A reconnect timeout fires: #connectWebSocket().
ReconnectTimerFires ==
  /\ Len(lcu.socks) < MaxSockets
  /\ \E i \in 1..Len(lcu.timers) :
       /\ lcu.timers[i] = 0
       /\ SetLcu(ConnectWebSocket([Fresh EXCEPT !.timers = RemoveAt(@, i)]))
  /\ UnchangedByConnector

\* shutdown()
LcuShutdown ==
  /\ lcu.started
  /\ ~lcu.shut
  /\ SetLcu(Shutdown(Fresh))
  /\ UnchangedByConnector

LcuNext ==
  \/ LcuStart
  \/ PollTick
  \/ FindDone
  \/ ParseDone
  \/ ClientStarts
  \/ ClientExits
  \/ WsOpen
  \/ WsClose
  \/ LcuTick
  \/ ReconnectTimerFires
  \/ LcuShutdown

\* ========================================================================
\* drafting-oracle/agent.js: DraftingOracle, the champ select poll
\* ========================================================================
\* One instance from its start() to after its stop().  The champ select
\* session of the client is summed up by the hash of its actions (`draft`,
\* which only moves on) and by whether the local player has locked in.
MaxFetches == 2            \* getChampSelectSession() requests in flight at once
MaxDraft == 2              \* changes of the session's actions in a run

NoHash == 0                \* #lastActionHash = ""

\*   active     : BaseAgent.#active
\*   pollTimer  : #pollTimer # null
\*   invoking, finalized, lastActionHash : the fields of the same name
\*   fetches    : polls suspended in `await this.lcu.getChampSelectSession()`
\*   inFlight   : invoke() calls suspended in `await this.claude.runToolLoop()`
\*   started, draft, locked : the instance was started; the client's session
\*   finalizedSent : DRAFT_FINALIZED messages sent to the overlay so far
OracleInit ==
  [active |-> FALSE, started |-> FALSE, pollTimer |-> FALSE,
   invoking |-> FALSE, finalized |-> FALSE, lastActionHash |-> NoHash,
   fetches |-> 0, inFlight |-> 0, draft |-> 1, locked |-> FALSE,
   finalizedSent |-> 0]

\* #pollChampSelect up to `await this.lcu.getChampSelectSession()`.
PollChampSelect(s) ==
  IF s.invoking \/ s.finalized THEN s
  ELSE [s EXCEPT !.fetches = @ + 1]

\* BaseAgent.invoke inside the try of #pollChampSelect: an inactive
\* instance gets the empty result back and the finally clears #invoking.
Invoke(s) ==
  IF s.active THEN [s EXCEPT !.invoking = TRUE, !.inFlight = @ + 1]
  ELSE [s EXCEPT !.invoking = FALSE]

\* #pollChampSelect after its await: the session has the action hash
\* `hash`, `locked` tells whether the local player's pick is completed and
\* `cached` whether the matchup cache holds advice for it.
AfterSession(s, hash, locked, cached) ==
  LET s1 == [s EXCEPT !.fetches = @ - 1]
  IN  IF locked THEN [s1 EXCEPT !.finalized = TRUE, !.finalizedSent = @ + 1]
      ELSE IF hash = s.lastActionHash THEN s1
      ELSE IF cached THEN [s1 EXCEPT !.lastActionHash = hash]
      ELSE Invoke([s1 EXCEPT !.lastActionHash = hash])

\* #pollChampSelect after `await this.invoke(...)`: the finally.
AfterInvoke(s) ==
  [s EXCEPT !.inFlight = @ - 1, !.invoking = FALSE]

\* DraftingOracle.onActivate under BaseAgent.start.
OracleOnActivate(s) ==
  PollChampSelect([s EXCEPT !.active = TRUE, !.started = TRUE,
                            !.lastActionHash = NoHash, !.invoking = FALSE,
                            !.finalized = FALSE, !.pollTimer = TRUE])

\* DraftingOracle.onDeactivate under BaseAgent.stop.
OracleOnDeactivate(s) ==
  [s EXCEPT !.active = FALSE, !.pollTimer = FALSE, !.invoking = FALSE,
            !.finalized = FALSE]

UnchangedByOracle ==
  UNCHANGED <<phaseVars, schedVars, advisorVars, lcu, loop, detector, gameClock>>

OracleStart ==
  /\ ~oracle.started
  /\ oracle' = OracleOnActivate(oracle)
  /\ UnchangedByOracle

OracleStop ==
  /\ oracle.active
  /\ oracle' = OracleOnDeactivate(oracle)
  /\ UnchangedByOracle

\* The 3 s interval fires.
OraclePollTick ==
  /\ oracle.pollTimer
  /\ oracle.fetches < MaxFetches
  /\ oracle' = PollChampSelect(oracle)
  /\ UnchangedByOracle

\* A session request answers with the session as it is now.
SessionArrives ==
  /\ oracle.fetches > 0
  /\ \E cached \in BOOLEAN :
       oracle' = AfterSession(oracle, oracle.draft, oracle.locked, cached)
  /\ UnchangedByOracle

\* A session request fails: the catch returns.
SessionFails ==
  /\ oracle.fetches > 0
  /\ oracle' = [oracle EXCEPT !.fetches = @ - 1]
  /\ UnchangedByOracle

\* A tool loop ends (or throws).
OracleInvokeReturns ==
  /\ oracle.inFlight > 0
  /\ oracle' = AfterInvoke(oracle)
  /\ UnchangedByOracle

\* A ban or a pick changes the session's actions.
DraftAdvances ==
  /\ oracle.draft < MaxDraft + 1
  /\ ~oracle.locked
  /\ oracle' = [oracle EXCEPT !.draft = @ + 1]
  /\ UnchangedByOracle

\* The local player locks in.
LocalPlayerLocksIn ==
  /\ ~oracle.locked
  /\ oracle' = [oracle EXCEPT !.locked = TRUE]
  /\ UnchangedByOracle

OracleNext ==
  \/ OracleStart
  \/ OracleStop
  \/ OraclePollTick
  \/ SessionArrives
  \/ SessionFails
  \/ OracleInvokeReturns
  \/ DraftAdvances
  \/ LocalPlayerLocksIn

\* ========================================================================
\* agents/macro-strategist/triggers.js: TriggerDetector
\* ========================================================================
\* One detector over one or more matches.  Game time is counted in ticks of
\* SECONDS_PER_TICK seconds; an event carries the game time of the moment it
\* is delivered.  Of evaluateSnapshot the model keeps the early returns, the
\* team identification, the player map, the pruning of the ally deaths and
\* the Throw-Guard trigger; its other triggers write #goldHistory,
\* #lastReportedGoldLead and #playerLevels only, which evaluateEvents never
\* reads or writes.
ALLY_DEATH_WINDOW == 30     \* gameTime - t < 30
THROW_GUARD_LEAD == 3000    \* goldLead > 3000
SECONDS_PER_TICK == 15
\* The match is followed for the length of the ally-death window.
MaxGameTicks == ALLY_DEATH_WINDOW \div SECONDS_PER_TICK
MaxSeen == 2                \* event keys #seenEventIds holds in one match

EventIds == {0, 1}

\* The players: the local player and an opponent, as every snapshot lists
\* them, and a name no snapshot lists.
PlayerNames == {"me", "foe", "ghost"}

\* The team a snapshot gives for a player it lists.
TeamOf(name) == IF name = "me" THEN "ORDER" ELSE "CHAOS"

TurretNames == {"Turret_T1_L_03_A", "Turret_OrderTurretShrine_A"}
InhibNames == {"Barracks_T1_L1", "Barracks_T2_C1"}

\* #parseTurretTeam / #parseInhibTeam on the names above
ParseTeam(name) ==
  CASE name \in {"Turret_T1_L_03_A", "Barracks_T1_L1"} -> "ORDER"
    [] name = "Barracks_T2_C1" -> "CHAOS"
    [] OTHER -> "null"

\* #parseTurretLane / #parseInhibLane on the names above
ParseLane(name) ==
  CASE name \in {"Turret_T1_L_03_A", "Barracks_T1_L1"} -> "top"
    [] name = "Barracks_T2_C1" -> "mid"
    [] OTHER -> "null"

EventNames == {"ChampionKill", "DragonKill", "BaronKill", "HeraldKill",
               "TurretKilled", "InhibKilled", "InhibRespawned"}

\* VictimName, KillerName, TurretKilled or InhibKilled / InhibRespawned,
\* whichever the event's name reads.
Subjects(name) ==
  CASE name \in {"ChampionKill", "DragonKill"} -> PlayerNames
    [] name = "TurretKilled" -> TurretNames
    [] name \in {"InhibKilled", "InhibRespawned"} -> InhibNames
    [] OTHER -> {"-"}

GameEvents(time) ==
  UNION {{[EventName |-> n, EventID |-> i, EventTime |-> time, subject |-> x] :
            i \in EventIds, x \in Subjects(n)} : n \in EventNames}

\* The batches handed to evaluateEvents: one event, or the same event twice.
GameBatches(time) ==
  {<<e>> : e \in GameEvents(time)} \cup {<<e, e>> : e \in GameEvents(time)}

\* Snapshots: a body without players; the full list; a list in which the
\* active player is not found.
GameSnapshots(time) ==
  {[allPlayers |-> ps, gameTime |-> time, goldLead |-> g] :
     ps \in {{}, {"me", "foe"}, {"foe"}},
     g \in {THROW_GUARD_LEAD, THROW_GUARD_LEAD + 1}}

\* The last call: which one, the size of its input (events of the batch,
\* players of the snapshot), the triggers it returned, and of the batch's
\* events, how many had a key evaluated before in the match (repeats) and
\* how many were first-time ChampionKill events with a victim of the local
\* player's team (allyKills).
DetectorStep(op, count) ==
  [op |-> op, count |-> count, triggers |-> <<>>, repeats |-> 0, allyKills |-> 0]

\*   playerTeamMap : "undefined" for a name the map does not hold
\*   step          : the last call (DetectorStep)
DetectorInit ==
  [localTeam |-> "null",
   playerTeamMap |-> [n \in PlayerNames |-> "undefined"],
   allyDrakeCount |-> 0, enemyDrakeCount |-> 0,
   lastDrakeKillTime |-> 0, lastBaronKillTime |-> 0,
   recentAllyDeathTimes |-> <<>>,
   turretsDestroyed |-> 0,
   allyInhibsDown |-> {}, enemyInhibsDown |-> {},
   seenEventIds |-> {},
   step |-> DetectorStep("none", 0)]

\* TriggerDetector.reset()
DetectorReset(s) == [DetectorInit EXCEPT !.step = DetectorStep("reset", 0)]

\* #getPlayerTeam(name): `this.#playerTeamMap.get(name) || null`
GetPlayerTeam(s, name) ==
  IF s.playerTeamMap[name] = "undefined" THEN "null" ELSE s.playerTeamMap[name]

Push(s, trigger) == [s EXCEPT !.step.triggers = Append(@, trigger)]

\* evaluateSnapshot: `filter((t) => gameTime - t < 30)`
PruneDeaths(times, gameTime) ==
  SelectSeq(times, LAMBDA t : gameTime - t < ALLY_DEATH_WINDOW)

\* TriggerDetector.evaluateSnapshot(snapshot); the active player is "me".
EvaluateSnapshot(s, snapshot) ==
  LET s0 == [s EXCEPT !.step = DetectorStep("snapshot",
                                            Cardinality(snapshot.allPlayers))]
      found == "me" \in snapshot.allPlayers
      s1 == IF s0.localTeam = "null" /\ found
              THEN [s0 EXCEPT !.localTeam = TeamOf("me")] ELSE s0
      s2 == [s1 EXCEPT
               !.playerTeamMap = [n \in PlayerNames |->
                                    IF n \in snapshot.allPlayers THEN TeamOf(n)
                                    ELSE @[n]],
               !.recentAllyDeathTimes = PruneDeaths(@, snapshot.gameTime)]
  IN  IF snapshot.allPlayers = {} THEN s0
      ELSE IF s1.localTeam = "null" THEN s1
      ELSE IF snapshot.goldLead > THROW_GUARD_LEAD
                /\ Len(s2.recentAllyDeathTimes) >= 2
             THEN Push(s2, "throw_guard")
      ELSE s2

EventKey(event) == <<event.EventName, event.EventID>>

\* The switch of evaluateEvents on one event.
OnGameEvent(s, event) ==
  LET name == event.EventName
      x == event.subject
  IN  CASE name = "ChampionKill" ->
             IF GetPlayerTeam(s, x) = s.localTeam
               THEN [s EXCEPT !.recentAllyDeathTimes = Append(@, event.EventTime)]
               ELSE s
        [] name = "DragonKill" ->
             LET team == GetPlayerTeam(s, x)
                 s1 == [s EXCEPT !.lastDrakeKillTime = event.EventTime]
             IN  Push(IF team = s.localTeam
                        THEN [s1 EXCEPT !.allyDrakeCount = @ + 1]
                      ELSE IF team # "null"
                        THEN [s1 EXCEPT !.enemyDrakeCount = @ + 1]
                      ELSE s1,
                      "major_objective_killed")
        [] name = "BaronKill" ->
             Push([s EXCEPT !.lastBaronKillTime = event.EventTime],
                  "major_objective_killed")
        [] name = "HeraldKill" -> Push(s, "major_objective_killed")
        [] name = "TurretKilled" ->
             Push(IF ParseTeam(x) # "null" /\ ParseLane(x) # "null"
                    THEN [s EXCEPT !.turretsDestroyed = @ + 1]
                    ELSE s,
                  "tower_destroyed")
        [] name = "InhibKilled" ->
             Push(IF ParseTeam(x) # "null" /\ ParseLane(x) # "null"
                    THEN IF ParseTeam(x) = s.localTeam
                           THEN [s EXCEPT !.allyInhibsDown = @ \cup {ParseLane(x)}]
                           ELSE [s EXCEPT !.enemyInhibsDown = @ \cup {ParseLane(x)}]
                    ELSE s,
                  "inhib_killed")
        [] name = "InhibRespawned" ->
             IF ParseTeam(x) # "null" /\ ParseLane(x) # "null"
               THEN IF ParseTeam(x) = s.localTeam
                      THEN [s EXCEPT !.allyInhibsDown = @ \ {ParseLane(x)}]
                      ELSE [s EXCEPT !.enemyInhibsDown = @ \ {ParseLane(x)}]
               ELSE s

\* (mutant) the loop body of evaluateEvents without the dedup.
EvaluateEventAgain(s, event) ==
  OnGameEvent([s EXCEPT !.seenEventIds = @ \cup {EventKey(event)}], event)

\* The loop body of evaluateEvents.
EvaluateEvent(s, event) ==
  IF EventKey(event) \in s.seenEventIds THEN s
  ELSE OnGameEvent([s EXCEPT !.seenEventIds = @ \cup {EventKey(event)}], event)

\* What the step record notes of an event before the loop body runs.
Observed(s, event) ==
  IF EventKey(event) \in s.seenEventIds
    THEN [s EXCEPT !.step.repeats = @ + 1]
  ELSE IF event.EventName = "ChampionKill" /\ event.subject = "me"
    THEN [s EXCEPT !.step.allyKills = @ + 1]
  ELSE s

RECURSIVE EvaluateEach(_, _)
EvaluateEach(s, events) ==
  IF events = <<>> THEN s
  ELSE EvaluateEach(EvaluateEvent(Observed(s, Head(events)), Head(events)),
                    Tail(events))

\* TriggerDetector.evaluateEvents(events)
EvaluateEvents(s, events) ==
  EvaluateEach([s EXCEPT !.step = DetectorStep("events", Len(events))], events)

UnchangedByDetector ==
  UNCHANGED <<phaseVars, schedVars, advisorVars, lcu, oracle, loop>>

\* MacroStrategist.onActivate / onDeactivate: a match starts or ends.
DetectorResetCall ==
  /\ detector' = DetectorReset(detector)
  /\ gameClock' = 0
  /\ UnchangedByDetector

SnapshotEvaluated ==
  /\ \E snapshot \in GameSnapshots(gameClock * SECONDS_PER_TICK) :
       detector' = EvaluateSnapshot(detector, snapshot)
  /\ UNCHANGED gameClock
  /\ UnchangedByDetector

EventsEvaluated ==
  /\ \E events \in GameBatches(gameClock * SECONDS_PER_TICK) :
       /\ detector' = EvaluateEvents(detector, events)
       /\ Cardinality(detector'.seenEventIds) <= MaxSeen
  /\ UNCHANGED gameClock
  /\ UnchangedByDetector

GameTimePasses ==
  /\ gameClock < MaxGameTicks
  /\ gameClock' = gameClock + 1
  /\ UNCHANGED detector
  /\ UnchangedByDetector

DetectorNext ==
  \/ DetectorResetCall
  \/ SnapshotEvaluated
  \/ EventsEvaluated
  \/ GameTimePasses

\* ========================================================================
\* integrations/claude/client.js: ClaudeClient.runToolLoop
\* ========================================================================
\* One call of runToolLoop.  A response of the API either has tool_use
\* blocks (stop_reason "tool_use") or has none (stop_reason "end_turn").
MAX_TOOL_ROUNDS == 10      \* #MAX_TOOL_ROUNDS = 10
MaxToolUses == 2           \* tool_use blocks in one response, at most

\*   pc       : "idle" (not called), "request" (awaiting messages.create),
\*              "tool" (awaiting toolHandler), "done" (returned or threw)
\*   round    : the loop variable
\*   requests : messages.create calls made
\*   pending  : tool_use blocks of the response not handled yet
\*   results  : allToolResults.length
\*   last     : the answer to the last request
\*   outcome  : how the call ended
LoopInit ==
  [pc |-> "idle", round |-> 0, requests |-> 0, pending |-> 0, results |-> 0,
   last |-> "none", outcome |-> "none"]

Responses ==
  {[toolUses |-> 0, stop_reason |-> "end_turn"]} \cup
  {[toolUses |-> n, stop_reason |-> "tool_use"] : n \in 1..MaxToolUses}

\* (mutant) a loop with no round limit.
MoreRoundsAlways(s) == TRUE

\* round < this.#MAX_TOOL_ROUNDS
MoreRounds(s) == s.round < MAX_TOOL_ROUNDS

\* The head of the for loop: the next request, or the return after it.
NextRound(s) ==
  IF MoreRounds(s)
    THEN [s EXCEPT !.pc = "request", !.requests = @ + 1]
    ELSE [s EXCEPT !.pc = "done", !.outcome = "exceeded"]

\* runToolLoop up to its first await; `initialized` is whether the
\* constructor found an API key (#client is not null).
RunToolLoop(s, initialized) ==
  IF ~initialized THEN [s EXCEPT !.pc = "done", !.outcome = "throws"]
  ELSE NextRound(s)

\* The catch of messages.create: the partial result with its error field.
OnApiError(s) ==
  [s EXCEPT !.pc = "done", !.last = "error", !.outcome = "error"]

\* After `await this.#client.messages.create(...)`.
OnApiResponse(s, response) ==
  IF response.toolUses = 0 \/ response.stop_reason = "end_turn"
    THEN [s EXCEPT !.pc = "done", !.last = "text", !.outcome = "final"]
    ELSE [s EXCEPT !.pc = "tool", !.last = "tool_use",
                   !.pending = response.toolUses]

\* After `await toolHandler(...)`, whether it resolved or threw: the result
\* is pushed; after the last block the round ends.
OnToolResult(s) ==
  LET s1 == [s EXCEPT !.pending = @ - 1, !.results = @ + 1]
  IN  IF s1.pending > 0 THEN s1
      ELSE NextRound([s1 EXCEPT !.round = @ + 1])

UnchangedByLoop ==
  UNCHANGED <<phaseVars, schedVars, advisorVars, lcu, oracle, detector, gameClock>>

\* An advisor's invoke() calls runToolLoop.
RunToolLoopCall ==
  /\ loop.pc = "idle"
  /\ \E initialized \in BOOLEAN : loop' = RunToolLoop(loop, initialized)
  /\ UnchangedByLoop

\* The API answers.
ApiResponds ==
  /\ loop.pc = "request"
  /\ \E response \in Responses : loop' = OnApiResponse(loop, response)
  /\ UnchangedByLoop

\* The request fails (API error, 429, or the 30 s timeout after retries).
ApiFails ==
  /\ loop.pc = "request"
  /\ loop' = OnApiError(loop)
  /\ UnchangedByLoop

\* The tool handler settles.
ToolSettles ==
  /\ loop.pc = "tool"
  /\ loop' = OnToolResult(loop)
  /\ UnchangedByLoop

LoopNext ==
  \/ RunToolLoopCall
  \/ ApiResponds
  \/ ApiFails
  \/ ToolSettles

Init ==
  /\ PhaseInit
  /\ now = StartTime
  /\ sched = SchedInit
  /\ hist = HistInit
  /\ macro = MacroInit
  /\ advice = AdviceInit
  /\ client = ClientInit
  /\ feed = FeedInit
  /\ lcu = LcuInit
  /\ oracle = OracleInit
  /\ loop = LoopInit
  /\ detector = DetectorInit
  /\ gameClock = 0

SpecPhase == Init /\ [][PhaseNext]_vars

SpecGameflow == Init /\ [][GameflowNext]_vars

SpecDetector == Init /\ [][DetectorNext]_vars

SpecSched == Init /\ [][SchedNext]_vars

\* A request is in flight.
InFlight == \E t \in Tasks : sched.req[t].pc = "http"

\* Time advances, timers fire once due, and every HTTP request completes
\* (#request settles on the response, on an error or on its 10 s timeout).
\* The last two are weak fairness of TimerFiresLive, SoftPauseEndsLive and
\* HttpResponseLive, stated on their guards: TimerDue and InFlight are the
\* guards of these actions and hold until the action is taken.
LiveFairness ==
  /\ WF_vars(TickRel)
  /\ []<>~TimerDue
  /\ []<>~InFlight

SpecLive == Init /\ [][LiveNext]_vars /\ LiveFairness

\* The relative-clock scheduler with one more call, safety only.
SpecSoft == Init /\ [][SoftNext]_vars

SpecQueue == Init /\ [][QueueNext]_vars

SpecLimits == Init /\ [][LimitsNext]_vars

SpecMacro == Init /\ [][MacroNext]_vars

SpecClient == Init /\ [][ClientNext]_vars

SpecAvail == Init /\ [][AvailNext]_vars

SpecLcu == Init /\ [][LcuNext]_vars

SpecOracle == Init /\ [][OracleNext]_vars

\* Every awaited request settles (the SDK client has a 30 s timeout and two
\* retries) and so does every tool handler.
LoopFairness == WF_vars(ApiResponds \/ ApiFails) /\ WF_vars(ToolSettles)

SpecLoop == Init /\ [][LoopNext]_vars /\ LoopFairness


\* ========================================================================
\* Properties
\* ========================================================================
\* C1: the emitted (from, to) callbacks form a chain.  The first `from` is
\* IDLE, every later `from` is the `to` emitted before it, and the last `to`
\* is the current phase (which is IDLE as long as nothing was emitted).
C1_EmittedChain ==
  /\ emitCount = 0 => currentPhase = IDLE
  /\ emitCount = 1 => emitted[1][1] = IDLE
  /\ emitCount = 2 => emitted[2][1] = emitted[1][2]
  /\ emitCount >= 1 => emitted[Len(emitted)][2] = currentPhase

\* A disconnect in game: reset() emitted (IN_GAME, IDLE) after a transition.
C1_Witness ==
  /\ emitCount = 2
  /\ emitted[2] = <<IN_GAME, IDLE>>
  /\ ~lcuConnected

\* C2: at most one advisor is started at any time, and an advisor is started
\* only once the outgoing advisor's deactivation is complete: while an
\* advisor is started, no other advisor is in the orchestrator's active set
\* and no continuation of a stop() or of a #deactivateAgent is pending.
C2_DeactivationBeforeActivation ==
  /\ Cardinality({a \in AgentIds : agentActive[a]}) <= 1
  /\ \A a \in AgentIds :
       agentActive[a] =>
         /\ \A i \in 1..Len(activeAgents) : activeAgents[i] = a
         /\ microtasks = <<>>

\* C3: tasks are dispatched in the order of their enqueue() calls (task ids
\* are handed out in call order).
C3_SchedulerFifo ==
  \A i, j \in 1..Len(hist.dispatched) :
    i < j => hist.dispatched[i] < hist.dispatched[j]

\* Three tasks dispatched, the third after a soft pause, and in service.
C3_Witness ==
  /\ hist.dispatched = <<1, 2, 3>>
  /\ sched.req[3].pc = "http"

\* C4: at most one task is in service (asleep for a bucket, for the spacing
\* or for a 429 retry, or waiting for its response) at any moment.
C4_OneTaskAtATime ==
  Cardinality({t \in Tasks : sched.req[t].pc # "none"}) <= 1

\* A task sleeps for its 429 retry while two others wait in the queue.
C4_Witness ==
  /\ \E t \in Tasks : sched.req[t].pc = "retry"
  /\ Len(sched.queue) = 2

\* C5: a token is consumed only when every bucket of the limiter admits.
C5_BucketAdmission == hist.lastConsume # "full"

\* A token consumed by an attempt that first slept for a full bucket.
C5_Witness == hist.lastConsume = "waited"

\* The step is a reloadKey() call that finds a key (`key`), or none.
ReloadStep(key) == SetSched(ReloadKey(SchedState, key))

\* C6: credential expiry is sticky.  While the key is flagged expired the
\* queue is hard-paused, empty and idle; only reloadKey() clears the flag;
\* and as long as it stays set no HTTP request is sent, nothing is
\* dispatched, and every API call is rejected with a key-expired error.
C6_ExpiryIsSticky ==
  [][sched.keyExpired =>
       /\ sched.paused /\ sched.pauseUntil = 0
       /\ sched.queue = <<>> /\ ~sched.running
       /\ \A t \in Tasks : sched.req[t].pc = "none"
       /\ ~sched'.keyExpired => ReloadStep(TRUE)
       /\ sched'.keyExpired =>
            /\ hist'.httpSent = hist.httpSent
            /\ hist'.dispatched = hist.dispatched
            /\ sched'.nextTask # sched.nextTask =>
                 hist'.outcome[sched.nextTask] \in {"keyExpired", "expired"}]_vars

\* A call rejected while the key is expired, some time after the 403.
C6_Witness ==
  /\ sched.keyExpired
  /\ \E t, u \in Tasks :
       /\ hist.outcome[t] = "forbidden"
       /\ hist.outcome[u] = "keyExpired"
  /\ now > StartTime + 1

\* C7: the step that receives the 403 rejects the task in flight, rejects
\* every waiting task with the credential-expired error without running it,
\* leaves the queue empty and emits key-expired; key-expired is emitted at
\* most once between two reloadKey() calls.
C7_ForbiddenDrain ==
  [][/\ hist'.keyExpiredEmits <= 1
     /\ (~sched.keyExpired /\ sched'.keyExpired) =>
          /\ hist'.keyExpiredEmits = hist.keyExpiredEmits + 1
          /\ sched'.queue = <<>>
          /\ \A t \in Tasks :
               /\ sched.req[t].pc = "http" => hist'.outcome[t] = "forbidden"
               /\ InSeq(sched.queue, t) =>
                    /\ hist'.outcome[t] = "expired"
                    /\ hist'.httpSent[t] = 0
                    /\ ~InSeq(hist'.dispatched, t)
     /\ (sched.keyExpired /\ sched'.keyExpired) =>
          hist'.keyExpiredEmits <= hist.keyExpiredEmits]_vars

\* S5: three tasks, the first answered 403, the other two rejected unrun.
C7_Witness ==
  /\ sched.keyExpired
  /\ hist.outcome[1] = "forbidden"
  /\ \A t \in 2..MaxTasks : hist.outcome[t] = "expired"
  /\ hist.keyExpiredEmits = 1
  /\ hist.dispatched = <<1>>

C9_GiveUpAfterRetries ==
  \A t \in Tasks :
    /\ hist.httpSent[t] <= MAX_RETRIES + 1
    /\ hist.rateLimited[t] <= 1
    /\ hist.rateLimited[t] = 1 <=> hist.outcome[t] = "rateLimited"
    /\ (sched.req[t].pc = "http" /\ sched.req[t].attempt > 0) =>
         hist.sentAt[t] - hist.respAt[t] >= hist.retryAfterMs[t]

\* A task answered 429 four times: three retries, then the give-up.
C9_Witness ==
  \E t \in Tasks :
    /\ hist.outcome[t] = "rateLimited"
    /\ hist.httpSent[t] = MAX_RETRIES + 1
    /\ hist.rateLimited[t] = 1

\* C10: a 429 received while retries remain is always retried, so a task
\* gives up (fails with the 429, emits rate-limited) only after its
\* 1 + MAX_RETRIES requests.
C10_RetriedWhileRetriesRemain ==
  \A t \in Tasks :
    (hist.rateLimited[t] > 0 \/ hist.outcome[t] = "rateLimited") =>
      hist.httpSent[t] = MAX_RETRIES + 1


\* C11: a task answered 200 after k >= 1 consecutive 429s (req.attempt is k)
\* resolves, and stays resolved; the step that resolves it comes no sooner
\* than its dispatch plus the k Retry-After delays; it has sent k + 1
\* requests; and rate-limited has not been emitted for it.
C11_RetryThenSuccess ==
  [][\A t \in Tasks :
       /\ hist.outcome[t] = "resolved" => hist'.outcome[t] = "resolved"
       /\ (sched.req[t].pc = "http" /\ sched.req[t].attempt >= 1
             /\ hist'.outcome[t] = "resolved") =>
            /\ now >= hist.dueAt
            /\ hist.httpSent[t] = sched.req[t].attempt + 1
            /\ hist'.httpSent[t] = hist.httpSent[t]
            /\ hist'.rateLimited[t] = 0]_vars

\* A task resolved by its third request: two 429s, then the 200.
C11_Witness ==
  \E t \in Tasks :
    /\ hist.outcome[t] = "resolved"
    /\ hist.httpSent[t] = 3
    /\ hist.rateLimited[t] = 0


\* C12: a request (first attempt or 429 retry) is sent no sooner than
\* REQUEST_SPACING_MS after the request sent before it.
C12_RequestSpacing ==
  [][\A t \in Tasks :
       (hist'.httpSent[t] > hist.httpSent[t] /\ hist.lastSentAt # 0) =>
         now' - hist.lastSentAt >= REQUEST_SPACING_MS]_vars

\* A second task dispatched in the tick of the first request, and sent one
\* spacing later without any wait for the limiter.
C12_Witness ==
  \E t \in Tasks :
    /\ t > 1
    /\ sched.req[t].pc = "http"
    /\ sched.req[t].attempt = 0
    /\ ~sched.req[t].waited
    /\ hist.sentAt[t] = hist.dueAt + REQUEST_SPACING_MS


\* The tasks dispatched in the WINDOW_MS up to now, counted from the
\* observed dispatch times.
DispatchedInWindow ==
  {t \in Tasks : hist.dispatchedAt[t] # 0
                 /\ hist.dispatchedAt[t] > now - WINDOW_MS}

\* C13: the dispatches of any window of WINDOW_MS stay within the soft
\* ceiling: the last of them was made with fewer than THROTTLE_PCT percent
\* of WINDOW_MAX before it (80 of 100 in the source, so at most 80 in all),
\* and windowUsage stays within the same ceiling.
C13_SoftThrottleCeiling ==
  /\ (Cardinality(DispatchedInWindow) - 1) * 100 < WINDOW_MAX * THROTTLE_PCT
  /\ (WindowUsage(sched, now) - 1) * 100 < WINDOW_MAX * THROTTLE_PCT

\* The ceiling is reached and a further task is held back by the soft pause.
C13_Witness ==
  /\ Cardinality(DispatchedInWindow) * 100 >= WINDOW_MAX * THROTTLE_PCT
  /\ sched.queue # <<>>
  /\ sched.loop.pc = "softSleep"


\* The soft throttle's test on the pruned window, at the current time.
ThrottleFull == WindowUsage(sched, now) * 100 >= WINDOW_MAX * THROTTLE_PCT

\* The step ends the drain loop's soft-pause sleep: the loop leaves the
\* sleep, or starts a new one with a later deadline.
SoftSleepEnds ==
  /\ sched.loop.pc = "softSleep"
  /\ sched'.loop.pc # "softSleep" \/ sched'.loop.wake > sched.loop.wake

\* The step dispatches the head of the queue (and perhaps more after it).
HeadDispatched ==
  /\ Len(hist'.dispatched) > Len(hist.dispatched)
  /\ SubSeq(hist'.dispatched, 1, Len(hist.dispatched)) = hist.dispatched
  /\ hist'.dispatched[Len(hist.dispatched) + 1] = Head(sched.queue)

\* C14 as claimed: once the deadline of a soft pause has passed, the loop
\* resumes dispatching the head of the queue.
C14_ResumesAtDeadline == [][SoftSleepEnds => HeadDispatched]_vars

\* C14, amended: a soft pause has its deadline PAUSE_DURATION_MS after the
\* trigger; until the deadline the loop dispatches nothing and no task
\* leaves the queue; a task enqueued meanwhile is accepted at the tail; and
\* at the deadline the loop tests the window again: it dispatches the head
\* of the queue if the window is below the threshold, and otherwise starts
\* another soft pause of PAUSE_DURATION_MS without dispatching.
C14_SoftPause ==
  [][/\ (sched.loop.pc # "softSleep" /\ sched'.loop.pc = "softSleep") =>
          /\ sched'.loop.wake = now + PAUSE_DURATION_MS
          /\ sched'.paused /\ sched'.pauseUntil = sched'.loop.wake
     /\ (sched.loop.pc = "softSleep" /\ ~SoftSleepEnds) =>
          /\ hist'.dispatched = hist.dispatched
          /\ \A t \in Tasks : InSeq(sched.queue, t) =>
               InSeq(sched'.queue, t) /\ hist'.outcome[t] = "queued"
          /\ sched'.nextTask # sched.nextTask =>
               /\ sched'.queue = Append(sched.queue, sched.nextTask)
               /\ hist'.outcome[sched.nextTask] = "queued"
     /\ SoftSleepEnds =>
          /\ now >= sched.loop.wake
          /\ IF ThrottleFull
               THEN /\ sched'.loop.pc = "softSleep"
                    /\ sched'.loop.wake = now + PAUSE_DURATION_MS
                    /\ sched'.paused
                    /\ sched'.queue = sched.queue
                    /\ hist'.dispatched = hist.dispatched
               ELSE HeadDispatched]_vars

\* A soft pause at its deadline, with the task that triggered it and a later
\* one waiting.
C14_Witness ==
  /\ sched.loop.pc = "softSleep"
  /\ sched.loop.wake = now
  /\ sched.queue = <<3, 4>>
  /\ hist.dispatched = <<1, 2>>

\* The task is waiting in the queue or in service.
Pending(t) == hist.outcome[t] \in {"queued", "running"}

\* C15: the drain loop is never stopped while tasks are queued; a task
\* leaves the queue only by being dispatched or, unrun, in the step that
\* receives a 403; a call made while the scheduler is not hard-paused is
\* queued or dispatched; and, time advancing and every request completing,
\* every task that is queued or in service eventually settles (outcomes are
\* final, so it is enough that again and again no task is left pending).
C15_EveryTaskSettles ==
  /\ [](sched.queue # <<>> => sched.running /\ sched.loop.pc # "idle")
  /\ [][\A t \in Tasks :
          /\ (InSeq(sched.queue, t) /\ ~InSeq(sched'.queue, t)) =>
               \/ InSeq(hist'.dispatched, t)
               \/ ~sched.keyExpired /\ sched'.keyExpired
          /\ (t = sched.nextTask /\ sched'.nextTask # sched.nextTask
                /\ ~sched.keyExpired
                /\ ~(sched.paused /\ sched.pauseUntil = 0)) =>
               \/ InSeq(sched'.queue, t)
               \/ InSeq(hist'.dispatched, t)]_vars
  /\ []<>(\A t \in Tasks : ~Pending(t))

\* Every call of the run has been made and has settled: one was rejected
\* with the key expiry, without having been dispatched, and the calls after
\* the reload were dispatched.
C15_Witness ==
  /\ sched.nextTask > MaxLiveTasks
  /\ \A t \in 1..MaxLiveTasks : hist.outcome[t] = "settled"
  /\ \E t \in 1..MaxLiveTasks : ~InSeq(hist.dispatched, t)
  /\ Len(hist.dispatched) >= 2
  /\ sched.queue = <<>>

\* ------------------------------------------------------------------------
\* C16  Advice cooldown: any two macro-call messages the advisor sends to
\* the overlay during one activation, local or through emit_macro_call,
\* are at least MIN_ADVICE_INTERVAL apart.
C16_AdviceCooldown ==
  advice.prevSendAt # 0 =>
    advice.lastSendAt - advice.prevSendAt >= MIN_ADVICE_INTERVAL

\* ------------------------------------------------------------------------
\* The step dispatches: a local call is emitted or an LLM invocation starts.
DispatchStep == advice'.step.outcome \in {"local", "llm"}

\* C17 (as stated)  Within MIN_ADVICE_INTERVAL after the last dispatch no
\* trigger is dispatched.
C17_NoDispatchAfterDispatch ==
  [][(DispatchStep /\ advice.dispatchAt # 0) =>
       now - advice.dispatchAt >= MIN_ADVICE_INTERVAL]_vars

\* C17  Cooldown suppression: within MIN_ADVICE_INTERVAL after the last
\* dispatch of the same activation no trigger is dispatched; a dispatch is
\* always for a trigger of the snapshot or event batch being handled, and a
\* handler that drops its triggers keeps nothing of them.
C17_CooldownSuppression ==
  [][/\ (DispatchStep /\ advice.dispatchAt # 0
           /\ advice.dispatchAct = macro.act) =>
          now - advice.dispatchAt >= MIN_ADVICE_INTERVAL
     /\ DispatchStep =>
          /\ advice'.step.handler \in {"snapshot", "events"}
          /\ advice'.step.triggers # <<>>
     /\ advice'.step.outcome = "suppressed" =>
          /\ macro' = [macro EXCEPT !.hasSnapshot = macro'.hasSnapshot]
          /\ advice' = [advice EXCEPT !.step = advice'.step]]_vars

\* A handler has just dropped its triggers, one tick before the cooldown
\* of the activation's last dispatch ends.
C17_Witness ==
  /\ advice.step.outcome = "suppressed"
  /\ advice.dispatchAct = macro.act
  /\ now - advice.dispatchAt = MIN_ADVICE_INTERVAL - 1

\* ------------------------------------------------------------------------
\* The top trigger: highest urgency, the earliest evaluated among equals.
TopTrigger(triggers) ==
  triggers[CHOOSE i \in 1..Len(triggers) :
             \A j \in 1..Len(triggers) :
               \/ PriorityOrder(triggers[i].urgency) < PriorityOrder(triggers[j].urgency)
               \/ /\ PriorityOrder(triggers[i].urgency) = PriorityOrder(triggers[j].urgency)
                  /\ i <= j]

\* C18  Local dispatch bypasses the LLM: a snapshot handled outside the
\* cooldown whose top trigger carries a local call sends exactly one macro
\* call, with that trigger's call type and urgency, starts no LLM
\* invocation and sets lastAdviceTime to the current time.
C18_LocalDispatch ==
  [][(/\ advice'.step.handler = "snapshot"
      /\ advice'.step.triggers # <<>>
      /\ now - macro.lastAdviceTime >= MIN_ADVICE_INTERVAL
      /\ TopTrigger(advice'.step.triggers).localCallType # NoCall) =>
       /\ advice'.step.sent =
            << [call_type |-> TopTrigger(advice'.step.triggers).localCallType,
                urgency |-> TopTrigger(advice'.step.triggers).urgency,
                source |-> "local"] >>
       /\ macro'.loops = macro.loops
       /\ macro'.invoking = macro.invoking
       /\ macro'.lastAdviceTime = now]_vars

\* A local call has just been sent for the second of two triggers, the
\* first being of lower urgency, while an LLM tool loop of the same
\* activation is still running.
C18_Witness ==
  /\ advice.step.outcome = "local"
  /\ Len(advice.step.triggers) = 2
  /\ advice.step.triggers[1].urgency = "info"
  /\ advice.step.triggers[2].localCallType = "CONTEST_OBJECTIVE"
  /\ Len(advice.step.sent) = 1
  /\ macro.lastAdviceTime = now
  /\ macro.active
  /\ macro.loops[macro.act]

\* ------------------------------------------------------------------------
\* The step emits 'new-events'.
EmissionStep == feed'.emissions > feed.emissions

\* C19 (as stated)  Every EventID of an emission is greater than every
\* EventID of any earlier emission.
C19_MonotonicDelivery ==
  [][EmissionStep => \A e \in feed'.lastEmission : e > feed.maxEmitted]_vars

\* C19  Every EventID of an emission is greater than every EventID emitted
\* since the last startPolling or stopPolling call.
C19_MonotonicSincePolling ==
  [][EmissionStep =>
       \A e \in feed'.lastEmission : e > feed.maxSinceReset]_vars

\* Two emissions since the one startPolling call, the second with the
\* events that came after the first.
C19_Witness ==
  /\ feed.resets = 1
  /\ feed.emissions = 2
  /\ feed.lastEmission = {1, 2}

\* ------------------------------------------------------------------------
\* C20  Same-phase inputs are no-ops: transition(p), directly or through
\* transitionFromLCU, while the current phase is p returns false, calls no
\* callback and leaves the phase unchanged.
C20_SamePhaseNoOp ==
  [][\A lcuPhase \in LcuPhases :
       (/\ \/ LCU_PHASE_MAP(lcuPhase) = currentPhase
           \/ LCU_PHASE_MAP(lcuPhase) = "undefined" /\ currentPhase = IDLE
        /\ \E enabled \in BOOLEAN :
             TransitionFromLCU(OrchState, lcuPhase, enabled)) =>
         /\ returned' = "false"
         /\ UNCHANGED <<currentPhase, emitted, emitCount, activeAgents,
                        agentActive, orphans, microtasks>>]_vars

\* transition() has just returned false in a phase other than IDLE, after a
\* callback.
C20_Witness ==
  /\ returned = "false"
  /\ currentPhase = IN_GAME
  /\ emitCount > 0

\* The canonical phase a raw string stands for in transitionFromLCU.
MappedPhase(lcuPhase) ==
  IF LCU_PHASE_MAP(lcuPhase) = "undefined" THEN IDLE
  ELSE LCU_PHASE_MAP(lcuPhase)

\* C21  The client is authoritative: from every current phase p, a
\* transition(q) to a canonical phase q other than p sets the current phase
\* to q, calls back exactly once with (p, q) and returns true, whether or
\* not q is in VALID_TRANSITIONS[p].
C21_ClientAuthoritative ==
  [][\A lcuPhase \in LcuPhases :
       (/\ MappedPhase(lcuPhase) # currentPhase
        /\ \E enabled \in BOOLEAN :
             TransitionFromLCU(OrchState, lcuPhase, enabled)) =>
         /\ currentPhase' = MappedPhase(lcuPhase)
         /\ returned' = "true"
         /\ Emit(currentPhase, MappedPhase(lcuPhase))]_vars

\* An edge that VALID_TRANSITIONS does not list has just been applied.
C21_Witness ==
  /\ returned = "true"
  /\ emitCount = 2
  /\ emitted[2] = <<LOADING, CHAMP_SELECT>>
  /\ CHAMP_SELECT \notin VALID_TRANSITIONS(LOADING)
  /\ currentPhase = CHAMP_SELECT

\* C22  reset() always leaves the current phase IDLE; it calls back exactly
\* once with (prior, IDLE) when the prior phase was not IDLE and not at all
\* when it was.  reset() runs in the 'disconnected' handler, the one step
\* that clears lcuConnected.
C22_ResetForcesIdle ==
  [][(lcuConnected /\ ~lcuConnected') =>
       /\ currentPhase' = IDLE
       /\ IF currentPhase # IDLE THEN Emit(currentPhase, IDLE)
          ELSE NoEmit]_vars

\* A disconnect after the game: reset() called back with (POST_GAME, IDLE).
C22_Witness ==
  /\ ~lcuConnected
  /\ currentPhase = IDLE
  /\ emitCount = 2
  /\ emitted[2] = <<POST_GAME, IDLE>>

C26_NoAttemptAfterClear ==
  [][lcu'.step.attempt # NoCredentials =>
       lcu'.step.attempt \notin lcu.cleared]_vars

\* C25 as stated: since the last startPolling or stopPolling call the
\* "available" and "unavailable" emissions alternate, starting with
\* "available", whatever the order in which the immediate first poll and
\* the interval polls answer.
C25_EdgeTriggeredAvailability ==
  /\ Len(feed.avail) = 1 => feed.avail[1] = "available"
  /\ Len(feed.avail) = 2 => feed.avail[1] # feed.avail[2]

\* C27 as stated: an advisor never has two invoke() calls in flight; a poll
\* that resumes from its data fetch while an invocation is in flight does
\* not start a second one.
C27_OneInvocationInFlight == oracle.inFlight <= 1

\* C28 as stated: pauseAgents() and resumeAgents() leave the current phase
\* as it is, and from a pauseAgents() call to the next resumeAgents() call
\* no advisor is active, whatever phase transitions happen in between.
C28_PauseShortCircuitsActivation ==
  /\ [](paused => \A a \in AgentIds : ~agentActive[a])
  /\ [][paused' # paused => currentPhase' = currentPhase]_vars

\* C29 as stated: a stopped advisor sends nothing to the overlay: whatever
\* a step sends is sent by the instance that is active at that moment,
\* also when a tool loop started before stop() calls emit_macro_call.
C29_NoSendAfterStop ==
  advice.step.sent # <<>> =>
    /\ macro.active
    /\ advice.step.by = macro.act

RECURSIVE Settled(_)
Settled(o) == IF o.mq = <<>> THEN o ELSE Settled(MicrotaskStep(o))

\* C31  Key-save resumption: when the propagation timer's callback has
\* called pauseAgents() and then resumeAgents(), and the continuations it
\* left have run, the advisor mapped to the current phase is started, if the
\* phase maps to an advisor and that advisor is enabled, whether or not it
\* was started before the call.
C31_KeySaveResumes ==
  [][\A enabled \in BOOLEAN :
       KeySaveStep(enabled) =>
         LET agentId == PHASE_AGENT_MAP(currentPhase)
         IN  (agentId # NoAgent /\ enabled) =>
               /\ Settled(OrchState').act[agentId]
               /\ InSeq(Settled(OrchState').aa, agentId)]_vars

\* C35  Advisor lifecycle publications are paired: for every advisor the
\* agent:activated and agent:deactivated publications alternate, starting
\* with agent:activated.
C35_PairedLifecycle == ~published.unpaired

\* C39  Idle while disconnected: as long as the connector holds no
\* credentials (before the first 'connected', and from each 'disconnected'
\* handler to the next 'connected'), the current phase is IDLE and no
\* advisor is started.
C39_IdleWhileDisconnected ==
  ~lcuConnected =>
    /\ currentPhase = IDLE
    /\ \A a \in AgentIds : ~agentActive[a]

\* C38  No stale phase on connect: once a phase of the client has reached
\* the state machine and nothing is pending (no continuation, no REST read),
\* the current phase is the canonical phase of the client's latest phase.
C38_NoStalePhase ==
  (lcuConnected /\ gameflow.heard /\ Quiet /\ pendingReads = 0) =>
    currentPhase = MappedPhase(gameflow.phase)

\* C32  The draft advisor invokes only on change and closes on lock-in: a
\* poll starts an invocation only when the session's action hash differs
\* from the last one observed; once a poll has observed the local player's
\* pick as completed, no invocation is started any more; and DRAFT_FINALIZED
\* is sent to the overlay once.
C32_InvokeOnChangeCloseOnLockIn ==
  /\ [](oracle.finalizedSent <= 1)
  /\ [][oracle'.inFlight > oracle.inFlight =>
          /\ oracle'.lastActionHash # oracle.lastActionHash
          /\ oracle.finalizedSent = 0]_vars

\* The rolling state the event evaluation keeps.
Rolling(s) ==
  <<s.allyDrakeCount, s.enemyDrakeCount, s.lastDrakeKillTime, s.lastBaronKillTime,
    s.turretsDestroyed, s.allyInhibsDown, s.enemyInhibsDown,
    s.recentAllyDeathTimes>>

EvaluateEventsStep ==
  /\ detector' # detector
  /\ detector'.step.op = "events"

\* C33  Ally-death window: an evaluateEvents call adds one entry to the
\* ally-death sequence per first-time ChampionKill event whose victim is on
\* the local player's team, and none for any other event, whether or not a
\* snapshot has identified the local team yet; and after a snapshot at game
\* time g that lists the players, every retained entry t has g - t < 30.
C33_AllyDeathWindow ==
  [][/\ EvaluateEventsStep =>
          Len(detector'.recentAllyDeathTimes)
            = Len(detector.recentAllyDeathTimes) + detector'.step.allyKills
     /\ (/\ detector' # detector
         /\ detector'.step.op = "snapshot"
         /\ detector'.step.count > 0
         /\ detector'.localTeam # "null") =>
          \A i \in 1..Len(detector'.recentAllyDeathTimes) :
            gameClock * SECONDS_PER_TICK - detector'.recentAllyDeathTimes[i]
              < ALLY_DEATH_WINDOW]_vars

\* C34  Event dedup is idempotent: an evaluateEvents call whose events all
\* have keys evaluated before in the match changes no rolling state and
\* returns no trigger; and in every call the triggers returned and the
\* growth of each counter and of the ally-death sequence are at most the
\* number of events evaluated for the first time.
C34_DedupIdempotent ==
  [][EvaluateEventsStep =>
       LET step == detector'.step
           first == step.count - step.repeats
       IN  /\ Len(step.triggers) <= first
           /\ detector'.allyDrakeCount - detector.allyDrakeCount <= first
           /\ detector'.enemyDrakeCount - detector.enemyDrakeCount <= first
           /\ detector'.turretsDestroyed - detector.turretsDestroyed <= first
           /\ Len(detector'.recentAllyDeathTimes)
                - Len(detector.recentAllyDeathTimes) <= first
           /\ first = 0 => Rolling(detector') = Rolling(detector)]_vars

\* A DragonKill already counted for the local team has been handed in
\* again, in a later batch, after an inhibitor event: nothing was returned.
C34_Witness ==
  /\ detector.step.op = "events"
  /\ detector.step.repeats = detector.step.count
  /\ detector.step.triggers = <<>>
  /\ detector.allyDrakeCount = 1
  /\ detector.enemyInhibsDown # {}


\* C36: a hard pause cannot be lost.  From pause() until resume() the queue
\* is paused (isPaused) with no deadline, which is the state in which
\* enqueue() rejects, whatever the drain loop does in between.
C36_HardPauseKept ==
  hist.hardPaused => sched.paused /\ sched.pauseUntil = 0


\* C37: rate limits hold across header updates.  For every bucket N:S in
\* force, no window of S seconds holds more than N of the requests sent
\* since that limit was announced, also when responses repeat the header.
\* The window is half-open, as in Bucket.#prune (t > now - S).
C37_LimitsAcrossHeaders ==
  \A i \in 1..Len(sched.buckets) :
    \A k \in 1..Len(hist.sentLog) :
      Cardinality({j \in 1..k :
                    hist.sentLog[j] > hist.sentLog[k] - sched.buckets[i].windowMs})
        <= sched.buckets[i].max


\* C40: telemetry is quiet after stop.  From stopPolling() until the next
\* startPolling() (no interval set), nothing has been emitted since the
\* stop ("available", "unavailable", "new-events"; a snapshot is emitted
\* only together with or after "available"), and #wasAvailable and
\* #lastEventId keep their reset values.
C40_QuietAfterStop ==
  ~client.eventTimer =>
    /\ client.wasAvailable = FALSE
    /\ client.lastEventId = -1
    /\ feed.avail = <<>>
    /\ feed.maxSinceReset = -1

=============================================================================
